---- MODULE Spec2Model ----
(***************************************************************************)
(* Pulse dashboard (server.js, latest revision: src/unnamed/part_007).     *)
(* Each subsystem is modelled with its own specification, among them:      *)
(*   CacheSpec    the stale-while-revalidate bot status cache              *)
(*   AlertSpec    the rule-driven alert worker                             *)
(*   HistorySpec  the history.jsonl collector with 30-day pruning          *)
(*   BudgetSpec   the monthly budget alert of the cost collector           *)
(*   CronSpec     GET /api/cron and the cron mutations                     *)
(* Time is kept in whole seconds (the source uses milliseconds).           *)
(***************************************************************************)
EXTENDS Integers, Sequences, FiniteSets, TLC

VARIABLES
  now,                \* Date.now(), in seconds
  botCache,           \* botCache[key]: NoEntry or [time, data, refreshing]
  probes,             \* probes[key]: the fetchBotStatus calls in flight
  ret,                \* what the last getBotStatus call resolved to
  staleGets,          \* staleGets[key]: getBotStatus calls that found the key not fresh
                      \* since a probe for it last completed (counted up to MaxStaleGets)
  lastGood,           \* lastGood[key]: the data last stored for the key by a load or a probe
  probeFailed,        \* probeFailed[key]: a probe for the key has ended in the catch clause
  preSwitch,          \* preSwitch[key].stale: the data of the entry was probed before the
                      \* model switch that has completed; .oldDone: a probe that was in
                      \* flight at the switch has completed since
  lastMetricSnapshot, \* NoSnapshot or [cpu, services]
  alertState,         \* alertState[i]: NoState or [status, firedAt, resolvedAt, accumulator]
  alertHistory,       \* newest first
  sent,               \* sendTelegramMessage calls made by the last timer callback
  lastTickAt,         \* when the alert timer callback last ran
  fires,              \* fires[i]: fire notifications dispatched for rule i so far
  recoveries,         \* recoveries[i]: recovery notifications dispatched so far
  lastFireAt,         \* lastFireAt[i]: when the last fire notification was dispatched
  outcomes,           \* what the sendTelegramMessage calls in `sent` resolved to, once
                      \* they have
  historyFile,        \* data/history.jsonl, a sequence of lines
  runs,               \* collectHistorySample calls in flight
  done,               \* the collectHistorySample call that returned last
  lastCollectAt,      \* when the collector timer last called collectHistorySample
  pruneFloor,         \* the cutoff of the last call whose append and prune both succeeded
  histQueries,        \* GET /api/history calls waiting for readFile
  histResponse,       \* the last answer of GET /api/history; none while a call that
                      \* started after it waits for readFile
  metricsCalls,       \* GET /api/metrics calls waiting at `await Promise.all([...])`
  metricsResponse,    \* what the last GET /api/metrics call answered
  evalInput,          \* the rule and the snapshot evaluateRule is called with
  evalOutput,         \* what the call returned
  setupMode,          \* no config.json was found at start
  auth,               \* CONFIG.auth
  license,            \* CONFIG.license
  served,             \* HTTP requests answered so far
  httpRequest,        \* the request answered last
  httpResponse,       \* its answer
  dockerContainers,   \* CONFIG.dockerContainers: 'auto' or a list of names
  commands,           \* the shell commands the restart handlers have passed to run()
  restarts,           \* restart requests answered so far
  restartResponse,    \* the answer to the last of them
  monthlyBudget,      \* CONFIG.budget.monthly, 0 when no budget is configured
  calMonth,           \* the calendar month, counted from the January the process started in
  budgetAlertSent,    \* _budgetAlertSent
  monthReached,       \* a cost collection of this calendar month has seen the budget reached
  monthAlerts,        \* budget alerts sent in this calendar month
  cronCache,          \* cronCaches[profile]: [data, time]
  cronJobs,           \* the version of the job list openclaw holds for the profile
  cronGets,           \* GET /api/cron calls waiting for getCronJobs
  cronMutation,       \* the cron mutation in flight, if any
  cronDone,           \* the newest version a completed mutation has produced
  cronResponse        \* the last answer of GET /api/cron

cacheVars == <<botCache, probes, ret, staleGets, lastGood, probeFailed, preSwitch>>
alertVars == <<lastMetricSnapshot, alertState, alertHistory, sent, lastTickAt,
               fires, recoveries, lastFireAt, outcomes>>
histVars  == <<historyFile, runs, done, lastCollectAt, pruneFloor>>
queryVars == <<histQueries, histResponse>>
metricsVars == <<metricsCalls, metricsResponse>>
evalVars  == <<evalInput, evalOutput>>
gateVars  == <<setupMode, auth, license, served, httpRequest, httpResponse>>
restartVars == <<dockerContainers, commands, restarts, restartResponse>>
budgetVars == <<monthlyBudget, calMonth, budgetAlertSent, monthReached, monthAlerts>>
cronVars  == <<cronCache, cronJobs, cronGets, cronMutation, cronDone, cronResponse>>
reqVars   == <<queryVars, metricsVars, evalVars, gateVars, restartVars, budgetVars, cronVars>>
vars == <<now, cacheVars, alertVars, histVars, reqVars>>

----------------------------------------------------------------------------
(* Program constants *)

HISTORY_MAX_AGE == 30 * 24 * 60 * 60   \* 30 days
HISTORY_INTERVAL == 5 * 60             \* 5 minutes
STEP_SECONDS == 30
INTERVAL == STEP_SECONDS               \* the alert timer period, 30 * 1000 ms
BotCacheTtl == 5 * 60                  \* CONFIG.botCacheTtl default

\* Date.now() when the process starts: positive, and later than one
\* retention window after the epoch.
StartTime == 2 * HISTORY_MAX_AGE

----------------------------------------------------------------------------
(* Bot status cache *)

MaxCacheSteps == 4      \* clock advances explored by CacheSpec
MaxProbes == 2          \* cap on concurrently running fetchBotStatus calls per key
MaxStaleGets == 3       \* staleGets stops counting here
CacheStep == BotCacheTtl \div 2

Keys == {"main", "work"}   \* profile || 'main' of the configured bots

NoEntry == [time |-> -1, data |-> [online |-> FALSE, kind |-> "none"], refreshing |-> FALSE]
NoRet == [key |-> "none", data |-> [online |-> FALSE, kind |-> "none"]]

\* the object stored for a key that has no entry yet
PlaceholderFull == [online |-> FALSE, kind |-> "placeholderFull"]
\* the four-field object handed to the caller when no entry exists
PlaceholderShort == [online |-> FALSE, kind |-> "placeholderShort"]
Result(online) == [online |-> online, kind |-> "result"]

\* stdout of `openclaw status --json` as run() resolves it
Outputs == {"", "jsonSessions", "jsonNoSessions", "textReachable"}

\* the online flag fetchBotStatus derives from the command output
OnlineOf(out) ==
  CASE out = "jsonSessions"    -> TRUE    \* json.sessions && json.sessions.count >= 0
    [] out = "jsonNoSessions"  -> FALSE
    [] out = "textReachable"   -> TRUE    \* includes('reachable'), no 'unreachable'/'error'
    [] OTHER                   -> FALSE   \* '' (the command failed or timed out)

\* entries read from data/bot-cache.json at load time
PersistedEntries ==
  { [time |-> t, data |-> Result(o), refreshing |-> FALSE] :
      t \in {StartTime - BotCacheTtl, StartTime - CacheStep}, o \in BOOLEAN }

HasEntry(k) == botCache[k] # NoEntry

\* getBotStatus: cached && now - cached.time < CONFIG.botCacheTtl
IsFresh(k) == HasEntry(k) /\ now - botCache[k].time < BotCacheTtl

\* (mutant) one refreshing flag for all keys
MayLaunchGlobalLock(k) == \A j \in Keys : ~HasEntry(j) \/ ~botCache[j].refreshing
\* (mutant) the refreshing flag is not consulted
MayLaunchUnguarded(k) == TRUE
\* (mutant) the guard inverted
MayLaunchInverted(k) == HasEntry(k) /\ botCache[k].refreshing
\* getBotStatus: !cached || !cached.refreshing
MayLaunch(k) == ~HasEntry(k) \/ ~botCache[k].refreshing

\* (mutant) the literal evaluates and the result is stored
ResultBuildsInScope == TRUE
\* The object literal that builds `result` reads inputTokens, outputTokens,
\* cacheRead and cacheWrite, which are declared with `let` inside the
\* `if (json) { ... }` block and are out of scope where the literal is
\* evaluated: the read raises a ReferenceError on every path, so control
\* always reaches the catch clause.
ResultBuilds == FALSE

\* (mutant) a failure that leaves the flag up
OnProbeFailureKeepsFlag(entry) == entry
\* (mutant) a failure that caches an offline result
OnProbeFailureCached(entry) == [time |-> now, data |-> [online |-> FALSE, kind |-> "result"],
                                refreshing |-> FALSE]
\* the catch clause of fetchBotStatus: botCache[key].refreshing = false
OnProbeFailure(entry) == [entry EXCEPT !.refreshing = FALSE]

Min(a, b) == IF a < b THEN a ELSE b

RemoveAt(s, i) == SubSeq(s, 1, i - 1) \o SubSeq(s, i + 1, Len(s))

\* (mutant) a fresh entry is refreshed as well
LaunchesWhenFresh(k) == MayLaunch(k)
\* getBotStatus on a key that is not fresh starts fetchBotStatus
Launches(k) == ~IsFresh(k) /\ MayLaunch(k)

\* botCache[key] when getBotStatus returns
EntryAfterGet(k) ==
  IF ~Launches(k) THEN botCache[k]
  ELSE IF HasEntry(k) THEN [botCache[k] EXCEPT !.refreshing = TRUE]
  ELSE [time |-> 0, data |-> PlaceholderFull, refreshing |-> TRUE]

\* the fetchBotStatus calls of the key when getBotStatus returns
ProbesAfterGet(k) ==
  IF Launches(k) THEN Append(probes[k], [pc |-> "status", out |-> "pending", old |-> FALSE])
  ELSE probes[k]

\* what getBotStatus resolves to, without the name
DataReturned(k) ==
  IF HasEntry(k) THEN botCache[k].data ELSE PlaceholderShort

\* getBotStatus(name, profile), together with the synchronous prefix of the
\* fetchBotStatus call it makes (up to the first await).
GetBotStatus(k) ==
  /\ IsFresh(k) \/ ~MayLaunch(k) \/ Len(probes[k]) < MaxProbes
  /\ botCache' = [botCache EXCEPT ![k] = EntryAfterGet(k)]
  /\ probes' = [probes EXCEPT ![k] = ProbesAfterGet(k)]
  /\ staleGets' = [staleGets EXCEPT ![k] = IF IsFresh(k) THEN @ ELSE Min(@ + 1, MaxStaleGets)]
  /\ ret' = [key |-> k, data |-> DataReturned(k)]
  /\ UNCHANGED <<now, lastGood, probeFailed, preSwitch, alertVars, histVars, reqVars>>

\* fetchBotStatus resumes after `await run(cmd, 15000)`: parses the output and
\* awaits the systemctl call.
FetchStatusResumes(k, out) ==
  /\ \E i \in 1..Len(probes[k]) :
       /\ probes[k][i].pc = "status"
       /\ probes' = [probes EXCEPT ![k][i] = [@ EXCEPT !.pc = "uptime", !.out = out]]
  /\ UNCHANGED <<now, botCache, ret, staleGets, lastGood, probeFailed, preSwitch, alertVars, histVars, reqVars>>

\* the same, with any of the outputs the command can have
FetchStatusDone(k) == \E out \in Outputs : FetchStatusResumes(k, out)

\* the same, when the command failed or was killed at its timeout: exec calls
\* back with err and run() resolves ''
FetchStatusTimesOut(k) == FetchStatusResumes(k, "")

\* fetchBotStatus resumes after the systemctl call: builds the result and
\* stores it, or lands in the catch clause.
FetchFinish(k) ==
  /\ \E i \in 1..Len(probes[k]) :
       /\ probes[k][i].pc = "uptime"
       /\ probes' = [probes EXCEPT ![k] = RemoveAt(@, i)]
       /\ IF ResultBuilds
            THEN /\ botCache' = [botCache EXCEPT ![k] =
                       [time |-> now, data |-> Result(OnlineOf(probes[k][i].out)),
                        refreshing |-> FALSE]]
                 /\ lastGood' = [lastGood EXCEPT ![k] = Result(OnlineOf(probes[k][i].out))]
                 /\ preSwitch' = [preSwitch EXCEPT ![k] =
                       [stale |-> probes[k][i].old, oldDone |-> @.oldDone \/ probes[k][i].old]]
                 /\ UNCHANGED probeFailed
            ELSE /\ botCache' = [botCache EXCEPT ![k] =
                       IF HasEntry(k) THEN OnProbeFailure(@) ELSE @]
                 /\ probeFailed' = [probeFailed EXCEPT ![k] = TRUE]
                 /\ preSwitch' = [preSwitch EXCEPT ![k].oldDone = @ \/ probes[k][i].old]
                 /\ UNCHANGED lastGood
  /\ staleGets' = [staleGets EXCEPT ![k] = 0]
  /\ UNCHANGED <<now, ret, alertVars, histVars, reqVars>>

\* POST /api/openclaw/model: "Invalidate bot cache so next fetch gets fresh status"
InvalidateBotCache ==
  /\ \E k \in Keys : HasEntry(k) /\ botCache[k].time # 0
  /\ botCache' = [k \in Keys |-> IF HasEntry(k) THEN [botCache[k] EXCEPT !.time = 0]
                                                ELSE botCache[k]]
  /\ probes' = [k \in Keys |-> [i \in 1..Len(probes[k]) |-> [probes[k][i] EXCEPT !.old = TRUE]]]
  /\ preSwitch' = [k \in Keys |-> [stale |-> botCache[k].data.kind = "result",
                                    oldDone |-> preSwitch[k].oldDone]]
  /\ UNCHANGED <<now, ret, staleGets, lastGood, probeFailed, alertVars, histVars, reqVars>>

\* the clock moves on
AdvanceClock(step, limit) ==
  /\ now + step <= limit
  /\ now' = now + step
  /\ UNCHANGED <<cacheVars, alertVars, histVars, reqVars>>

CacheClock == AdvanceClock(CacheStep, StartTime + MaxCacheSteps * CacheStep)

----------------------------------------------------------------------------
(* Alert worker *)

\* let lastMetricSnapshot = null
NoSnapshot == [cpu |-> -1, ram |-> -1, disk |-> -1, services |-> <<>>, docker |-> <<>>,
               bots |-> <<>>]

MaxAlertSteps == 7      \* clock advances (of one timer period) explored by AlertSpec
CooldownMinutes == 2    \* CONFIG.alerts.cooldownMinutes of the modelled configuration

Null == 0               \* null: like 0, falsy in `state.firedAt && ...`

\* CONFIG.alerts.rules of the modelled configuration; duration 0 stands for
\* a rule without duration (falsy in `rule.duration`)
Rules == <<
  [metric |-> "cpu",          threshold |-> 90, duration |-> 0,  name |-> ""],
  [metric |-> "cpu",          threshold |-> 90, duration |-> 60, name |-> ""],
  [metric |-> "service_down", threshold |-> 0,  duration |-> 0,  name |-> "nginx"],
  [metric |-> "bot_offline",  threshold |-> 0,  duration |-> 0,  name |-> "main"] >>

RuleIds == 1..Len(Rules)

\* { cpu: cpuUsage, ram: ram?.percent, disk: disk?.percent, services: systemd,
\*   docker, bots: botResults }
Snapshot(cpu, ram, disk, services, docker, bots) ==
  [cpu |-> cpu, ram |-> ram, disk |-> disk, services |-> services, docker |-> docker,
   bots |-> bots]

\* what GET /api/metrics publishes on the modelled host, which runs no
\* containers and no bots: the cpu usage and the systemd services vary
Snapshots ==
  { Snapshot(c, 50, 50, sv, <<>>, <<>>) :
      c \in {89, 90},
      sv \in { <<>>,
               <<[name |-> "nginx", active |-> TRUE]>>,
               <<[name |-> "nginx", active |-> FALSE]>> } }

NoState == [status |-> "none", firedAt |-> Null, resolvedAt |-> Null, accumulator |-> 0]
\* alertState.set(i, { status: 'idle', firedAt: null, resolvedAt: null, accumulator: 0 })
FreshState == [status |-> "idle", firedAt |-> Null, resolvedAt |-> Null, accumulator |-> 0]

\* (CONFIG.alerts?.cooldownMinutes ?? 15) * 60 * 1000
cooldownMs == CooldownMinutes * 60

\* a value that is null or undefined (getCpuUsage failed, ram?.percent of a
\* failed getRam)
Undefined == -1
\* v ?? 0
OrZero(v) == IF v = Undefined THEN 0 ELSE v

\* (mutant) a name that is not in the list counts as down
SomeDownOrAbsent(list, name, flag) ==
  \/ \E j \in 1..Len(list) : list[j].name = name /\ ~list[j][flag]
  \/ \A j \in 1..Len(list) : list[j].name # name
\* list.some(x => x.name === rule.name && !x[flag])
SomeDown(list, name, flag) ==
  \E j \in 1..Len(list) : list[j].name = name /\ ~list[j][flag]

\* (mutant) the threshold itself does not trigger
evaluateRuleStrict(rule, snapshot) ==
  IF snapshot = NoSnapshot THEN FALSE
  ELSE CASE rule.metric = "cpu"  -> OrZero(snapshot.cpu) > rule.threshold
         [] rule.metric = "ram"  -> OrZero(snapshot.ram) > rule.threshold
         [] rule.metric = "disk" -> OrZero(snapshot.disk) > rule.threshold
         [] rule.metric = "service_down"   -> SomeDown(snapshot.services, rule.name, "active")
         [] rule.metric = "container_down" -> SomeDown(snapshot.docker, rule.name, "running")
         [] rule.metric = "bot_offline"    -> SomeDown(snapshot.bots, rule.name, "online")
         [] OTHER -> FALSE
\* evaluateRule(rule, snapshot)
evaluateRule(rule, snapshot) ==
  IF snapshot = NoSnapshot THEN FALSE
  ELSE CASE rule.metric = "cpu"  -> OrZero(snapshot.cpu) >= rule.threshold
         [] rule.metric = "ram"  -> OrZero(snapshot.ram) >= rule.threshold
         [] rule.metric = "disk" -> OrZero(snapshot.disk) >= rule.threshold
         [] rule.metric = "service_down"   -> SomeDown(snapshot.services, rule.name, "active")
         [] rule.metric = "container_down" -> SomeDown(snapshot.docker, rule.name, "running")
         [] rule.metric = "bot_offline"    -> SomeDown(snapshot.bots, rule.name, "online")
         [] OTHER -> FALSE

\* ['cpu', 'ram', 'disk'].includes(rule.metric) && rule.duration
UsesAccumulator(rule) == rule.metric \in {"cpu", "ram", "disk"} /\ rule.duration # 0

\* (mutant) no cooldown gate
InCooldownNever(state, t) == FALSE
\* state.firedAt && now - state.firedAt < cooldownMs
InCooldown(state, t) == state.firedAt # Null /\ t - state.firedAt < cooldownMs

Fire(state, t) == [state |-> [state EXCEPT !.status = "firing", !.firedAt = t], note |-> "fire"]
\* (mutant) a recovery that notifies nobody
ResolveSilent(state, t) ==
  [state |-> [state EXCEPT !.status = "resolved", !.resolvedAt = t], note |-> "none"]
\* (mutant) a recovery that puts the rule back to idle
ResolveToIdle(state, t) ==
  [state |-> [state EXCEPT !.status = "idle", !.resolvedAt = t], note |-> "recovery"]
Resolve(state, t) ==
  [state |-> [state EXCEPT !.status = "resolved", !.resolvedAt = t], note |-> "recovery"]
Quiet(state) == [state |-> state, note |-> "none"]

\* (mutant) the accumulator does not advance on a snapshot it has counted
AccumulateOnce(acc, triggered) == IF triggered THEN STEP_SECONDS ELSE 0
\* (mutant) the accumulator is not reset when the rule is not triggered
AccumulateNoReset(acc, triggered) == IF triggered THEN acc + STEP_SECONDS ELSE acc
\* state.accumulator = triggered ? state.accumulator + STEP_SECONDS : 0
Accumulate(acc, triggered) == IF triggered THEN acc + STEP_SECONDS ELSE 0

\* the branch of the loop body for a threshold rule with a duration
DurationBranch(rule, state0, triggered, t) ==
  LET state == [state0 EXCEPT !.accumulator = Accumulate(@, triggered)]
      shouldFire == state.accumulator >= rule.duration
  IN  IF ~shouldFire /\ state.status = "idle" THEN Quiet(state)
      ELSE IF ~shouldFire /\ state.status = "firing" THEN Resolve(state, t)
      ELSE IF shouldFire /\ state.status # "firing"
             THEN IF InCooldown(state, t) THEN Quiet(state) ELSE Fire(state, t)
      ELSE Quiet(state)

\* (mutant) a firing rule is notified again on every triggered tick
BinaryBranchRenotify(rule, state, triggered, t) ==
  IF triggered
    THEN IF state.status # "firing" /\ InCooldown(state, t) THEN Quiet(state) ELSE Fire(state, t)
  ELSE IF state.status = "firing" THEN Resolve(state, t)
  ELSE Quiet(state)
\* (mutant) a recovery held back while the rule is in cooldown
BinaryBranchGatedResolve(rule, state, triggered, t) ==
  IF triggered /\ state.status # "firing"
    THEN IF InCooldown(state, t) THEN Quiet(state) ELSE Fire(state, t)
  ELSE IF ~triggered /\ state.status = "firing" /\ ~InCooldown(state, t) THEN Resolve(state, t)
  ELSE Quiet(state)
\* the else branch of the loop body: rules evaluated without an accumulator
BinaryBranch(rule, state, triggered, t) ==
  IF triggered /\ state.status # "firing"
    THEN IF InCooldown(state, t) THEN Quiet(state) ELSE Fire(state, t)
  ELSE IF ~triggered /\ state.status = "firing" THEN Resolve(state, t)
  ELSE Quiet(state)

\* (mutant) the rules after the first are evaluated on a snapshot that was
\* cleared in the meantime
RuleStepTornSnapshot(i, t) ==
  LET rule == Rules[i]
      state == IF alertState[i] = NoState THEN FreshState ELSE alertState[i]
      triggered == evaluateRule(rule, IF i = 1 THEN lastMetricSnapshot ELSE NoSnapshot)
  IN  IF UsesAccumulator(rule) THEN DurationBranch(rule, state, triggered, t)
                               ELSE BinaryBranch(rule, state, triggered, t)
\* one iteration of the loop over the rules: the state of rule i and the
\* notification dispatched for it
RuleStep(i, t) ==
  LET rule == Rules[i]
      state == IF alertState[i] = NoState THEN FreshState ELSE alertState[i]
      triggered == evaluateRule(rule, lastMetricSnapshot)
  IN  IF UsesAccumulator(rule) THEN DurationBranch(rule, state, triggered, t)
                               ELSE BinaryBranch(rule, state, triggered, t)

\* (mutant) an iteration that dispatches nothing ends the loop
LoopGoesOnUnlessQuiet(r) == r.note # "none"
\* whether the loop goes on to the next rule after an iteration: the body is
\* left by `continue` or by falling off its end, never by break or return
LoopGoesOn(r) == TRUE

\* iteration i of `for (let i = 0; i < rules.length; i++)`, if the loop gets
\* that far
RECURSIVE Iteration(_, _)
Iteration(i, t) ==
  IF i = 1 \/ (Iteration(i - 1, t).reached /\ LoopGoesOn(Iteration(i - 1, t)))
    THEN [state |-> RuleStep(i, t).state, note |-> RuleStep(i, t).note, reached |-> TRUE]
    ELSE [state |-> alertState[i], note |-> "none", reached |-> FALSE]

HistoryCap == 20

\* (mutant) no cap
pushHistoryUncapped(history, entry) ==
  <<[entry EXCEPT !.active = TRUE, !.resolvedAt = Null]>> \o history
\* pushHistory(entry)
pushHistory(history, entry) ==
  LET h == <<[entry EXCEPT !.active = TRUE, !.resolvedAt = Null]>> \o history
  IN  IF Len(h) > HistoryCap THEN SubSeq(h, 1, HistoryCap) ELSE h

\* (mutant) the resolve stamps the entry and leaves it active
CloseEntryStampOnly(history, i, t) ==
  LET hits == { j \in 1..Len(history) : history[j].ruleIndex = i /\ history[j].active }
  IN  IF hits = {} THEN history
      ELSE LET j == CHOOSE x \in hits : \A y \in hits : x <= y
           IN  [history EXCEPT ![j] = [@ EXCEPT !.resolvedAt = t]]
\* alertHistory.find(e => e.ruleIndex === i && e.active), then close it
CloseEntry(history, i, t) ==
  LET hits == { j \in 1..Len(history) : history[j].ruleIndex = i /\ history[j].active }
  IN  IF hits = {} THEN history
      ELSE LET j == CHOOSE x \in hits : \A y \in hits : x <= y
           IN  [history EXCEPT ![j] = [@ EXCEPT !.active = FALSE, !.resolvedAt = t]]

\* alertHistory after the loop has handled rules 1..n
RECURSIVE HistoryAfter(_, _)
HistoryAfter(n, t) ==
  IF n = 0 THEN alertHistory
  ELSE LET h == HistoryAfter(n - 1, t)
           r == Iteration(n, t)
       IN  CASE r.note = "fire" ->
                  pushHistory(h, [ruleIndex |-> n, firedAt |-> t,
                                  active |-> TRUE, resolvedAt |-> Null])
             [] r.note = "recovery" -> CloseEntry(h, n, t)
             [] OTHER -> h

\* the sendTelegramMessage calls of the loop over rules 1..n, in order
RECURSIVE SentAfter(_, _)
SentAfter(n, t) ==
  IF n = 0 THEN <<>>
  ELSE LET r == Iteration(n, t)
       IN  IF r.note = "none" THEN SentAfter(n - 1, t)
           ELSE Append(SentAfter(n - 1, t), [rule |-> n, kind |-> r.note])

\* the setInterval callback of startAlertWorker
AlertTick ==
  /\ now - lastTickAt = INTERVAL
  /\ lastTickAt' = now
  /\ outcomes' = <<>>
  /\ IF Len(Rules) = 0 \/ lastMetricSnapshot = NoSnapshot
       THEN /\ sent' = <<>>
            /\ UNCHANGED <<alertState, alertHistory, fires, recoveries, lastFireAt>>
       ELSE /\ alertState' = [i \in RuleIds |-> Iteration(i, now).state]
            /\ alertHistory' = HistoryAfter(Len(Rules), now)
            /\ sent' = SentAfter(Len(Rules), now)
            /\ fires' = [i \in RuleIds |->
                           fires[i] + (IF Iteration(i, now).note = "fire" THEN 1 ELSE 0)]
            /\ recoveries' = [i \in RuleIds |->
                           recoveries[i] + (IF Iteration(i, now).note = "recovery" THEN 1 ELSE 0)]
            /\ lastFireAt' = [i \in RuleIds |->
                           IF Iteration(i, now).note = "fire" THEN now ELSE lastFireAt[i]]
  /\ UNCHANGED <<now, lastMetricSnapshot, cacheVars, histVars, reqVars>>

\* GET /api/metrics: "Update snapshot for alert worker"
PublishSnapshot ==
  /\ \E s \in Snapshots :
       /\ s # lastMetricSnapshot
       /\ lastMetricSnapshot' = s
  /\ UNCHANGED <<now, alertState, alertHistory, sent, lastTickAt, fires, recoveries,
                 lastFireAt, outcomes, cacheVars, histVars, reqVars>>

\* (mutant) a failed delivery takes the transition back
AfterSendRollback(state, kind, ok) ==
  IF ok THEN state
  ELSE IF kind = "fire" THEN [state EXCEPT !.status = "idle", !.firedAt = Null]
  ELSE [state EXCEPT !.status = "firing", !.resolvedAt = Null]
\* sendTelegramMessage(msg).catch(() => {}): the value the call resolves to
\* is dropped
AfterSend(state, kind, ok) == state

\* the sendTelegramMessage calls of the last tick resolve, each to true or,
\* when there are no credentials or the request fails or times out after 8 s,
\* to false
SettleSends ==
  /\ sent # <<>>
  /\ outcomes = <<>>
  /\ \E o \in [1..Len(sent) -> BOOLEAN] :
       /\ outcomes' = o
       /\ alertState' = [i \in RuleIds |->
            IF \E j \in 1..Len(sent) : sent[j].rule = i
              THEN LET j == CHOOSE x \in 1..Len(sent) : sent[x].rule = i
                   IN  AfterSend(alertState[i], sent[j].kind, o[j])
              ELSE alertState[i]]
  /\ UNCHANGED <<now, lastMetricSnapshot, alertHistory, sent, lastTickAt, fires, recoveries,
                 lastFireAt, cacheVars, histVars, reqVars>>

\* the clock moves on to the instant the timer is due next
AlertClock ==
  /\ now - lastTickAt < INTERVAL
  /\ AdvanceClock(INTERVAL, StartTime + MaxAlertSteps * INTERVAL)

----------------------------------------------------------------------------
(* History collector *)

MaxHistorySteps == 2    \* clock advances (of one sampling period) explored by HistorySpec
MaxRuns == 2            \* cap on overlapping collectHistorySample calls
MaxInitLines == 1       \* lines history.jsonl holds when the process starts

\* a line of history.jsonl: a sample (of which the model keeps ts), or text
\* that JSON.parse rejects
Sample(ts) == [ok |-> TRUE, ts |-> ts]
Garbage == [ok |-> FALSE, ts |-> 0]

\* lines left by earlier runs of the process: a sample past retention, two
\* that reach the retention limit one and two periods after start, a recent
\* one, and an unparsable line
InitLines ==
  { Sample(StartTime - HISTORY_MAX_AGE - HISTORY_INTERVAL),
    Sample(StartTime - HISTORY_MAX_AGE + HISTORY_INTERVAL),
    Sample(StartTime - HISTORY_MAX_AGE + 2 * HISTORY_INTERVAL),
    Sample(StartTime - HISTORY_INTERVAL),
    Garbage }

RECURSIVE SeqsUpTo(_, _)
SeqsUpTo(S, n) ==
  IF n = 0 THEN { <<>> }
  ELSE LET shorter == SeqsUpTo(S, n - 1)
       IN  shorter \cup { Append(q, x) : q \in shorter, x \in S }

\* (mutant) a retention window one sampling period too long
KeepsLineLate(line, cutoff) == line.ok /\ line.ts >= cutoff - HISTORY_INTERVAL
\* pruneHistory: try { return JSON.parse(line).ts >= cutoff; } catch { return false; }
KeepsLine(line, cutoff) == line.ok /\ line.ts >= cutoff

\* lines.filter(...)
RECURSIVE Kept(_, _)
Kept(lines, cutoff) ==
  IF lines = <<>> THEN <<>>
  ELSE LET rest == Kept(Tail(lines), cutoff)
       IN  IF KeepsLine(Head(lines), cutoff) THEN <<Head(lines)>> \o rest ELSE rest

\* (mutant) the comparison the wrong way round
NeedsRewriteInverted(kept, lines) == Len(kept) > Len(lines)
\* pruneHistory: if (kept.length < lines.length)
NeedsRewrite(kept, lines) == Len(kept) < Len(lines)

NoDone == [appended |-> FALSE, pruned |-> FALSE, dropped |-> 0, at |-> 0]

\* (mutant) a collector that gives up after a call that failed
StartCollectUnlessFailed ==
  /\ done = NoDone \/ (done.appended /\ done.pruned)
  /\ Len(runs) < MaxRuns
  /\ now - lastCollectAt >= HISTORY_INTERVAL
  /\ lastCollectAt' = now
  /\ runs' = Append(runs, [pc |-> "metrics", buf |-> <<>>])
  /\ UNCHANGED <<now, historyFile, done, pruneFloor, cacheVars, alertVars, reqVars>>
\* the collector timer calls collectHistorySample, which awaits the metrics
StartCollect ==
  /\ Len(runs) < MaxRuns
  /\ now - lastCollectAt >= HISTORY_INTERVAL
  /\ lastCollectAt' = now
  /\ runs' = Append(runs, [pc |-> "metrics", buf |-> <<>>])
  /\ UNCHANGED <<now, historyFile, done, pruneFloor, cacheVars, alertVars, reqVars>>

\* collectHistorySample: the sample is stamped and appendFile writes it
AppendSample ==
  /\ \E r \in 1..Len(runs) :
       /\ runs[r].pc = "metrics"
       /\ historyFile' = Append(historyFile, Sample(now))
       /\ runs' = [runs EXCEPT ![r].pc = "read"]
  /\ UNCHANGED <<now, done, lastCollectAt, pruneFloor, cacheVars, alertVars, reqVars>>

\* collectHistorySample: a metric, mkdir or appendFile throws; the catch
\* clause logs and the call returns
AppendFails ==
  /\ \E r \in 1..Len(runs) :
       /\ runs[r].pc = "metrics"
       /\ runs' = RemoveAt(runs, r)
       /\ done' = [appended |-> FALSE, pruned |-> FALSE, dropped |-> 0, at |-> now]
  /\ UNCHANGED <<now, historyFile, lastCollectAt, pruneFloor, cacheVars, alertVars, reqVars>>

\* pruneHistory: readFile reads the file
PruneRead ==
  /\ \E r \in 1..Len(runs) :
       /\ runs[r].pc = "read"
       /\ runs' = [runs EXCEPT ![r] = [pc |-> "filter", buf |-> historyFile]]
  /\ UNCHANGED <<now, historyFile, done, lastCollectAt, pruneFloor, cacheVars, alertVars, reqVars>>

\* pruneHistory: readFile throws; the catch clause logs and both calls return
PruneReadFails ==
  /\ \E r \in 1..Len(runs) :
       /\ runs[r].pc = "read"
       /\ runs' = RemoveAt(runs, r)
       /\ done' = [appended |-> TRUE, pruned |-> FALSE, dropped |-> 0, at |-> now]
  /\ UNCHANGED <<now, historyFile, lastCollectAt, pruneFloor, cacheVars, alertVars, reqVars>>

\* pruneHistory resumes with the text read: computes the cutoff, filters,
\* rewrites the file when a line was dropped; both calls return
PruneWrite ==
  /\ \E r \in 1..Len(runs) :
       /\ runs[r].pc = "filter"
       /\ LET cutoff == now - HISTORY_MAX_AGE
              lines == runs[r].buf
              kept == Kept(lines, cutoff)
          IN  /\ historyFile' = IF NeedsRewrite(kept, lines) THEN kept ELSE historyFile
              /\ done' = [appended |-> TRUE, pruned |-> TRUE,
                          dropped |-> Len(lines) - Len(kept), at |-> now]
              /\ pruneFloor' = cutoff
       /\ runs' = RemoveAt(runs, r)
  /\ UNCHANGED <<now, lastCollectAt, cacheVars, alertVars, reqVars>>

\* pruneHistory: writeFile throws; the catch clause logs and both calls
\* return. File system calls are taken as atomic: the failed write leaves
\* the file as it was.
PruneWriteFails ==
  /\ \E r \in 1..Len(runs) :
       /\ runs[r].pc = "filter"
       /\ NeedsRewrite(Kept(runs[r].buf, now - HISTORY_MAX_AGE), runs[r].buf)
       /\ runs' = RemoveAt(runs, r)
       /\ done' = [appended |-> TRUE, pruned |-> FALSE, dropped |-> 0, at |-> now]
  /\ UNCHANGED <<now, historyFile, lastCollectAt, pruneFloor, cacheVars, alertVars, reqVars>>

HistoryClock == AdvanceClock(HISTORY_INTERVAL, StartTime + MaxHistorySteps * HISTORY_INTERVAL)

----------------------------------------------------------------------------
(* Initial values of the parts a specification leaves alone *)

CacheIdle ==
  /\ botCache = [k \in Keys |-> NoEntry]
  /\ probes = [k \in Keys |-> <<>>]
  /\ ret = NoRet
  /\ staleGets = [k \in Keys |-> 0]
  /\ lastGood = [k \in Keys |-> NoEntry.data]
  /\ probeFailed = [k \in Keys |-> FALSE]
  /\ preSwitch = [k \in Keys |-> [stale |-> FALSE, oldDone |-> FALSE]]

AlertIdle ==
  /\ lastMetricSnapshot = NoSnapshot
  /\ alertState = [i \in RuleIds |-> NoState]
  /\ alertHistory = <<>>
  /\ sent = <<>>
  /\ lastTickAt = StartTime
  /\ fires = [i \in RuleIds |-> 0]
  /\ recoveries = [i \in RuleIds |-> 0]
  /\ lastFireAt = [i \in RuleIds |-> Null]
  /\ outcomes = <<>>

HistoryIdle ==
  /\ historyFile = <<>>
  /\ runs = <<>>
  /\ done = NoDone
  /\ lastCollectAt = StartTime - HISTORY_INTERVAL
  /\ pruneFloor = 0

----------------------------------------------------------------------------
(* GET /api/history *)

MaxQuerySteps == 1      \* clock advances explored by QuerySpec
MaxQueries == 1         \* GET /api/history calls waiting for readFile at a time
MaxQueryLines == 3      \* lines of the history file when QuerySpec starts

HOUR == 60 * 60
DefaultHours == 168     \* parseInt(req.query.hours) || 168

validMetrics == {"cpu", "ram", "disk", "netUp", "netDown"}

\* req.query.metric: absent, or a string
NoParam == "(absent)"
MetricParams == {NoParam, "cpu", "ts"}

\* req.query.hours: absent (parseInt gives NaN), or a string parseInt gives
\* n for
HoursParams ==
  { [kind |-> "absent", n |-> 0] }
    \cup { [kind |-> "int", n |-> h] : h \in {0, 24, 25, 169} }

\* parseInt(req.query.hours) || 168: NaN and 0 are falsy
HoursOf(p) == IF p.kind = "int" /\ p.n # 0 THEN p.n ELSE DefaultHours

\* !metric || !validMetrics.includes(metric)
MetricRejected(m) == m = NoParam \/ m = "" \/ m \notin validMetrics

\* hours <= 24 ? 5 min : hours <= 168 ? 1 h : 4 h
bucketMs(hours) ==
  IF hours <= 24 THEN 5 * 60
  ELSE IF hours <= 168 THEN HOUR
  ELSE 4 * HOUR

\* a parsed line of the history file: its ts and the metric fields it has
Entry(ts, fields) == [ok |-> TRUE, ts |-> ts, fields |-> fields]

\* entry[metric] ?? 0
FieldOf(entry, metric) ==
  IF metric \in DOMAIN entry.fields THEN entry.fields[metric] ELSE 0

\* the lines QuerySpec starts from: three samples in one five-minute bucket,
\* one exactly a day old that has no cpu field, and an unparsable line
QueryLines ==
  { Entry(StartTime - 30,  [cpu |-> 10, netUp |-> 7]),
    Entry(StartTime - 200, [cpu |-> 10, netUp |-> 0]),
    Entry(StartTime - 250, [cpu |-> 15, netUp |-> 2]),
    Entry(StartTime - 24 * HOUR, [netUp |-> 1]),
    Garbage }

\* the files of up to n lines of S, each line at most once, in any order
RECURSIVE FilesUpTo(_, _)
FilesUpTo(S, n) ==
  IF n = 0 THEN { <<>> }
  ELSE LET shorter == FilesUpTo(S, n - 1)
       IN  shorter \cup UNION { { Append(q, x) : x \in S \ { q[j] : j \in 1..Len(q) } } :
                                 q \in shorter }

\* (mutant) a window that leaves out the sample taken exactly at the cutoff
InWindowStrict(line, cutoff) == line.ok /\ line.ts > cutoff
\* JSON.parse(line) succeeds and entry.ts >= cutoff
InWindow(line, cutoff) == line.ok /\ line.ts >= cutoff

\* Math.floor(entry.ts / bucketMs) * bucketMs
BucketOf(ts, width) == (ts \div width) * width

\* buckets.get(bucket) after the line is added; the Map keeps insertion order
AddToBuckets(buckets, bucket, v) ==
  IF \E j \in 1..Len(buckets) : buckets[j].bucket = bucket
    THEN [j \in 1..Len(buckets) |->
            IF buckets[j].bucket = bucket
              THEN [bucket |-> bucket, sum |-> buckets[j].sum + v,
                    count |-> buckets[j].count + 1]
              ELSE buckets[j]]
    ELSE Append(buckets, [bucket |-> bucket, sum |-> v, count |-> 1])

\* the loop over raw.split('\n')
RECURSIVE BucketsOf(_, _, _, _)
BucketsOf(lines, metric, cutoff, width) ==
  IF lines = <<>> THEN <<>>
  ELSE LET before == BucketsOf(SubSeq(lines, 1, Len(lines) - 1), metric, cutoff, width)
           line == lines[Len(lines)]
       IN  IF InWindow(line, cutoff)
             THEN AddToBuckets(before, BucketOf(line.ts, width), FieldOf(line, metric))
             ELSE before

\* .sort((a, b) => a[0] - b[0])
RECURSIVE SortByBucket(_)
SortByBucket(buckets) ==
  IF buckets = <<>> THEN <<>>
  ELSE LET least == CHOOSE j \in 1..Len(buckets) :
                      \A i \in 1..Len(buckets) : buckets[j].bucket <= buckets[i].bucket
       IN  <<buckets[least]>> \o SortByBucket(RemoveAt(buckets, least))

\* (mutant) the mean cut to one decimal instead of rounded
RoundTenthsDown(sum, count) == (10 * sum) \div count
\* Math.round(b.sum / b.count * 10) / 10, in tenths
RoundTenths(sum, count) == (20 * sum + count) \div (2 * count)

\* ({ ts: ts + bucketMs / 2, value: ... })
PointOf(b, width) == [ts |-> b.bucket + width \div 2, value |-> RoundTenths(b.sum, b.count)]

\* the array GET /api/history answers with
HistoryResult(lines, metric, hours, cutoff) ==
  LET width == bucketMs(hours)
      sorted == SortByBucket(BucketsOf(lines, metric, cutoff, width))
  IN  [j \in 1..Len(sorted) |-> PointOf(sorted[j], width)]

NoResponse == [status |-> 0, body |-> <<>>, metric |-> NoParam, hours |-> 0, at |-> 0,
               path |-> "none"]

\* (mutant) an unknown metric answered from the default metric
OnBadMetricDefault(m) == [reject |-> FALSE, metric |-> "cpu"]
\* return res.status(400).json({ error: 'Invalid metric. ...' })
OnBadMetric(m) == [reject |-> TRUE, metric |-> m]

\* GET /api/history up to `await fs.promises.readFile(HISTORY_FILE, 'utf8')`
HistoryQuery(m, p) ==
  /\ LET v == IF MetricRejected(m) THEN OnBadMetric(m) ELSE [reject |-> FALSE, metric |-> m]
         hours == HoursOf(p)
     IN  IF v.reject
           THEN /\ histResponse' = [status |-> 400, body |-> <<>>, metric |-> m,
                                    hours |-> hours, at |-> now, path |-> "validation"]
                /\ UNCHANGED histQueries
           ELSE /\ Len(histQueries) < MaxQueries
                /\ histQueries' = Append(histQueries,
                                         [metric |-> v.metric, asked |-> m, hours |-> hours,
                                          cutoff |-> now - hours * HOUR, at |-> now])
                /\ histResponse' = NoResponse
  /\ UNCHANGED <<now, cacheVars, alertVars, histVars, metricsVars, evalVars, gateVars, restartVars, budgetVars, cronVars>>

\* (mutant) a missing file reported as a server error
OnReadErrorStrict(code) == [status |-> 500, body |-> <<>>]
\* if (err.code === 'ENOENT') return res.json([]); throw err;  (the outer
\* catch answers 500)
OnReadError(code) ==
  IF code = "ENOENT" THEN [status |-> 200, body |-> <<>>]
  ELSE [status |-> 500, body |-> <<>>]

\* readFile resolves: the rest of the handler
HistoryQueryRead ==
  /\ \E i \in 1..Len(histQueries) :
       LET q == histQueries[i]
       IN  /\ histQueries' = RemoveAt(histQueries, i)
           /\ histResponse' = [status |-> 200,
                               body |-> HistoryResult(historyFile, q.metric, q.hours, q.cutoff),
                               metric |-> q.asked, hours |-> q.hours, at |-> q.at,
                               path |-> "read"]
  /\ UNCHANGED <<now, cacheVars, alertVars, histVars, metricsVars, evalVars, gateVars, restartVars, budgetVars, cronVars>>

\* readFile rejects: with ENOENT when the file is not there (an absent file
\* and an empty one are both historyFile = <<>>), or with another code
HistoryQueryReadFails ==
  /\ \E i \in 1..Len(histQueries), code \in {"ENOENT", "EACCES"} :
       LET q == histQueries[i]
           r == OnReadError(code)
       IN  /\ code = "ENOENT" => historyFile = <<>>
           /\ histQueries' = RemoveAt(histQueries, i)
           /\ histResponse' = [status |-> r.status, body |-> r.body,
                               metric |-> q.asked, hours |-> q.hours, at |-> q.at,
                               path |-> code]
  /\ UNCHANGED <<now, cacheVars, alertVars, histVars, metricsVars, evalVars, gateVars, restartVars, budgetVars, cronVars>>

QueryClock == AdvanceClock(HISTORY_INTERVAL, StartTime + MaxQuerySteps * HISTORY_INTERVAL)

QueryIdle ==
  /\ histQueries = <<>>
  /\ histResponse = NoResponse


----------------------------------------------------------------------------
(* GET /api/metrics *)

MaxMetricsCalls == 1    \* GET /api/metrics calls in flight at a time

\* CONFIG.bots, by key, in configuration order
Bots == <<"main", "work">>

\* the collectors the handler calls and awaits besides getBotStatus
Sources == {"getCpuUsage", "getCpuTemp", "getRam", "getDisk", "getNetworkSpeed",
            "getDockerContainers", "getSystemdServices", "fetchWeather"}

\* the collectors that read a file, run a command or make a request before
\* they resolve: all of them, except fetchWeather while its cache is fresh
Invoked(weatherFresh) == IF weatherFresh THEN Sources \ {"fetchWeather"} ELSE Sources

NoMetricsResponse == [status |-> 0, waitedFor |-> {}, bots |-> <<>>]

\* GET /api/metrics up to `await Promise.all([...])`: getBotStatus for every
\* configured bot, and the eight collectors started
MetricsStart ==
  /\ Len(metricsCalls) < MaxMetricsCalls
  /\ \A k \in Keys : IsFresh(k) \/ ~MayLaunch(k) \/ Len(probes[k]) < MaxProbes
  /\ botCache' = [k \in Keys |-> EntryAfterGet(k)]
  /\ probes' = [k \in Keys |-> ProbesAfterGet(k)]
  /\ staleGets' = [k \in Keys |-> IF IsFresh(k) THEN staleGets[k]
                                  ELSE Min(staleGets[k] + 1, MaxStaleGets)]
  /\ ret' = [key |-> Bots[Len(Bots)], data |-> DataReturned(Bots[Len(Bots)])]
  /\ \E weatherFresh \in BOOLEAN :
       metricsCalls' = Append(metricsCalls,
         [awaiting |-> Invoked(weatherFresh), waitedFor |-> Invoked(weatherFresh),
          bots |-> [j \in 1..Len(Bots) |->
                      [name |-> Bots[j], online |-> DataReturned(Bots[j]).online]]])
  /\ UNCHANGED <<now, lastGood, probeFailed, preSwitch, alertVars, histVars, queryVars, evalVars, gateVars, restartVars, budgetVars, cronVars,
                 metricsResponse>>

\* one of the collectors a call waits for resolves
SourceSettles ==
  /\ \E j \in 1..Len(metricsCalls) : \E src \in metricsCalls[j].awaiting :
       metricsCalls' = [metricsCalls EXCEPT ![j].awaiting = @ \ {src}]
  /\ UNCHANGED <<now, cacheVars, alertVars, histVars, queryVars, evalVars, gateVars, restartVars, budgetVars, cronVars, metricsResponse>>

\* Promise.all resolves: the handler builds the result, updates the snapshot
\* for the alert worker and answers
MetricsFinish ==
  /\ \E j \in 1..Len(metricsCalls) : \E s \in Snapshots :
       /\ metricsCalls[j].awaiting = {}
       /\ metricsCalls' = RemoveAt(metricsCalls, j)
       /\ lastMetricSnapshot' = [s EXCEPT !.bots = metricsCalls[j].bots]
       /\ metricsResponse' = [status |-> 200, waitedFor |-> metricsCalls[j].waitedFor,
                              bots |-> metricsCalls[j].bots]
  /\ UNCHANGED <<now, cacheVars, alertState, alertHistory, sent, lastTickAt, fires,
                 recoveries, lastFireAt, outcomes, histVars, queryVars, evalVars, gateVars, restartVars, budgetVars, cronVars>>

MetricsIdle ==
  /\ metricsCalls = <<>>
  /\ metricsResponse = NoMetricsResponse


----------------------------------------------------------------------------
(* evaluateRule on its own *)

EntityNames == {"nginx", "redis"}

\* CONFIG.alerts.rules entries: the three binary metrics for either name, a
\* threshold rule on each of cpu, ram and disk, and a metric the switch does
\* not know
EvalRules ==
  { [metric |-> m, threshold |-> 0, duration |-> 0, name |-> n] :
      m \in {"service_down", "container_down", "bot_offline"}, n \in EntityNames }
  \cup { [metric |-> m, threshold |-> 90, duration |-> 0, name |-> ""] :
            m \in {"cpu", "ram", "disk"} }
  \cup { [metric |-> "load", threshold |-> 1, duration |-> 0, name |-> "nginx"] }

\* getSystemdServices: { name, active, uptime }
Service(n, up) == [name |-> n, active |-> up]
\* getDockerContainers: { name, running, uptime }
Container(n, up) == [name |-> n, running |-> up]
\* botResults: { name, online, ... }
Bot(n, up) == [name |-> n, online |-> up]

\* what the lists of a snapshot say, as <<name, up>> pairs: nothing, nginx
\* alone up or down, redis alone down, and both with one of them down
EntityLists ==
  { <<>>,
    << <<"nginx", TRUE>> >>,
    << <<"nginx", FALSE>> >>,
    << <<"redis", FALSE>> >>,
    << <<"redis", FALSE>>, <<"nginx", TRUE>> >>,
    << <<"redis", TRUE>>, <<"nginx", FALSE>> >> }

ServiceList(l) == [i \in 1..Len(l) |-> Service(l[i][1], l[i][2])]
ContainerList(l) == [i \in 1..Len(l) |-> Container(l[i][1], l[i][2])]
BotList(l) == [i \in 1..Len(l) |-> Bot(l[i][1], l[i][2])]

\* cpu, ram and disk of a snapshot: each is at the threshold of the rules in
\* one of the triples, one below it in another and undefined in the third
EvalPercents == { <<90, 89, Undefined>>, <<89, Undefined, 90>>, <<Undefined, 90, 89>> }

EvalSnapshots ==
  { NoSnapshot } \cup
  { Snapshot(p[1], p[2], p[3], ServiceList(sv), ContainerList(dk), BotList(bt)) :
      p \in EvalPercents, sv \in EntityLists, dk \in EntityLists, bt \in EntityLists }

NoEval == [done |-> FALSE, triggered |-> FALSE]

\* const triggered = evaluateRule(rule, lastMetricSnapshot)
Evaluate ==
  /\ ~evalOutput.done
  /\ evalOutput' = [done |-> TRUE,
                    triggered |-> evaluateRule(evalInput.rule, evalInput.snapshot)]
  /\ UNCHANGED <<now, cacheVars, alertVars, histVars, queryVars, metricsVars, gateVars, restartVars, budgetVars, cronVars,
                 evalInput>>

EvalIdle ==
  /\ evalInput = [rule |-> Rules[1], snapshot |-> NoSnapshot]
  /\ evalOutput = NoEval

----------------------------------------------------------------------------
(* The middleware chain in front of the routes *)

MaxRequests == 2        \* HTTP requests explored by GateSpec
MaxGateSteps == 2       \* clock advances explored by GateSpec

\* A request path, as its segments: "/api/health" is <<"api", "health">>
\* and "/" is <<>>. A route parameter stands for the value it is given.
Root == <<>>

\* the app.METHOD(path, ...) calls, in file order; `pro` tells whether
\* requirePro is passed before the handler
Route(m, p, gated) == [method |-> m, path |-> p, pro |-> gated]

Routes ==
  { Route("GET", <<"api", "health">>, FALSE),
    Route("GET", <<"api", "config">>, FALSE),
    Route("POST", <<"api", "setup">>, FALSE),
    Route("GET", <<"api", "detect", "iface">>, FALSE),
    Route("GET", <<"api", "detect", "docker">>, FALSE),
    Route("GET", <<"api", "detect", "services">>, FALSE),
    Route("GET", <<"api", "metrics">>, FALSE),
    Route("GET", <<"api", "bots", "stats">>, FALSE),
    Route("GET", <<"api", "costs">>, TRUE),
    Route("GET", <<"api", "alerts", "status">>, FALSE),
    Route("POST", <<"api", "alerts", "test">>, FALSE),
    Route("POST", <<"api", "action", "restart-service">>, FALSE),
    Route("POST", <<"api", "action", "restart-docker">>, FALSE),
    Route("GET", <<"api", "openclaw", "models">>, FALSE),
    Route("POST", <<"api", "openclaw", "gateway">>, FALSE),
    Route("POST", <<"api", "openclaw", "model">>, FALSE),
    Route("POST", <<"api", "openclaw", "clear-sessions">>, FALSE),
    Route("GET", <<"api", "history">>, FALSE),
    Route("GET", <<"api", "logs", "service", ":name">>, FALSE),
    Route("GET", <<"api", "logs", "docker", ":name">>, FALSE),
    Route("GET", <<"admin", "license">>, FALSE),
    Route("POST", <<"api", "license", "generate">>, FALSE),
    Route("POST", <<"api", "license", "activate">>, FALSE),
    Route("GET", <<"api", "license", "status">>, FALSE),
    Route("GET", <<"api", "update", "check">>, FALSE),
    Route("POST", <<"api", "update", "apply">>, FALSE),
    Route("GET", <<"api", "cron", "profiles">>, TRUE),
    Route("GET", <<"api", "cron">>, TRUE),
    Route("POST", <<"api", "cron", ":id", "toggle">>, TRUE),
    Route("POST", <<"api", "cron", ":id", "run">>, TRUE),
    Route("POST", <<"api", "cron", "create">>, TRUE),
    Route("DELETE", <<"api", "cron", ":id">>, TRUE),
    Route("GET", <<"setup">>, FALSE),
    Route("GET", <<"settings">>, FALSE) }

\* const publicPaths = [...]
publicPaths ==
  { <<"setup">>, <<"api", "setup">>, <<"api", "health">>, <<"api", "alerts", "test">>,
    <<"admin", "license">>, <<"api", "license", "generate">>,
    <<"api", "license", "activate">>, <<"api", "license", "status">> }

\* req.path.startsWith('/api/detect'), on whole segments
StartsWithApiDetect(path) ==
  /\ Len(path) >= 2
  /\ path[1] = "api"
  /\ path[2] = "detect"

isPublic(path) == path \in publicPaths \/ StartsWithApiDetect(path)

\* const allowed = [...] of the setup mode redirect
allowed ==
  { <<"setup">>, <<"api", "setup">>, <<"api", "health">>, <<"admin", "license">>,
    <<"api", "license", "generate">> }

isAllowed(path) == path \in allowed \/ StartsWithApiDetect(path)

\* CONFIG.auth
AuthDisabled == [enabled |-> FALSE, username |-> "", password |-> ""]
AuthEnabled == [enabled |-> TRUE, username |-> "admin", password |-> "secret"]

\* req.headers.authorization: absent, or Basic with a user and a password
NoHeader == [user |-> "", pass |-> ""]
Headers ==
  { NoHeader,
    [user |-> "admin", pass |-> "secret"],
    [user |-> "admin", pass |-> "guess"] }

\* A license key string, by what verifyLicense reads from it: whether it has
\* two parts, whether the signature matches the payload, and the payload
NoLicense == [present |-> FALSE]
Key(twoParts, signed, tier, expiresAt) ==
  [present |-> TRUE, twoParts |-> twoParts, signed |-> signed, tier |-> tier,
   expiresAt |-> expiresAt]

LicenseKeys ==
  { Key(FALSE, FALSE, "pro", StartTime + 365 * 24 * HOUR),
    Key(TRUE, FALSE, "pro", StartTime + 365 * 24 * HOUR),
    Key(TRUE, TRUE, "pro", StartTime + 365 * 24 * HOUR),
    Key(TRUE, TRUE, "pro", StartTime),
    Key(TRUE, TRUE, "team", StartTime + 365 * 24 * HOUR) }

\* verifyLicense(keyString) at Date.now() = t
verifyLicense(key, t) ==
  IF ~key.twoParts THEN [valid |-> FALSE, error |-> "Invalid format"]
  ELSE IF ~key.signed THEN [valid |-> FALSE, error |-> "Invalid signature"]
  ELSE IF key.expiresAt < t THEN [valid |-> FALSE, error |-> "License expired"]
  ELSE [valid |-> TRUE, error |-> ""]

\* requirePro calls next()
ProPasses(lic, t) ==
  /\ lic.present
  /\ verifyLicense(lic, t).valid
  /\ lic.tier = "pro"

\* the auth middleware calls next()
AuthPasses(path, header, a) ==
  \/ isPublic(path)
  \/ ~a.enabled
  \/ header.user = a.username /\ header.pass = a.password

\* the setup mode redirect middleware calls next()
SetupPasses(path, setup) == ~setup \/ isAllowed(path)

\* express.static answers: public/index.html for GET /
StaticServes(req) == req.method = "GET" /\ req.path = Root

RouteOf(req) == { r \in Routes : r.method = req.method /\ r.path = req.path }

\* what a request can be: a route, the front page, or a path no route has
Requests ==
  { [method |-> r.method, path |-> r.path] : r \in Routes }
  \cup { [method |-> "GET", path |-> Root],
         [method |-> "GET", path |-> <<"api", "nothing">>] }

Answer(status, error, by) == [status |-> status, error |-> error, by |-> by]

NoAnswer == Answer(0, "", "")

\* the handler of POST /api/license/activate
Activate(key, t) ==
  IF ~key.present THEN Answer(400, "License key is required", "handler")
  ELSE IF ~verifyLicense(key, t).valid
    THEN Answer(400, verifyLicense(key, t).error, "handler")
  ELSE Answer(200, "", "handler")

IsActivate(req) == req.method = "POST" /\ req.path = <<"api", "license", "activate">>

\* The answer to a request, through the middlewares in app.use order and then
\* the route; `by` names the function that ended the request. Of the handlers
\* only the one of /api/license/activate is followed into its body.
Respond(req, header, key, setup, a, lic, t) ==
  IF ~AuthPasses(req.path, header, a) THEN Answer(401, "Unauthorized", "auth")
  ELSE IF ~SetupPasses(req.path, setup) THEN Answer(302, "", "setup")
  ELSE IF StaticServes(req) THEN Answer(200, "", "static")
  ELSE IF RouteOf(req) = {} THEN Answer(404, "", "express")
  ELSE IF (\E r \in RouteOf(req) : r.pro) /\ ~ProPasses(lic, t)
    THEN Answer(402, "pro_required", "requirePro")
  ELSE IF IsActivate(req) THEN Activate(key, t)
  ELSE Answer(200, "", "handler")

\* req.body.key: read by the handler of /api/license/activate alone
BodyKeys(req) == IF IsActivate(req) THEN {NoLicense} \cup LicenseKeys ELSE {NoLicense}

\* one HTTP request, from its arrival to its answer
HttpRequest(req, header, key) ==
  /\ served < MaxRequests
  /\ served' = served + 1
  /\ httpRequest' = [method |-> req.method, path |-> req.path, header |-> header]
  /\ httpResponse' = Respond(req, header, key, setupMode, auth, license, now)
  /\ license' = IF /\ IsActivate(req)
                   /\ httpResponse'.by = "handler"
                   /\ httpResponse'.status = 200
                  THEN key ELSE license
  /\ UNCHANGED <<now, setupMode, auth, cacheVars, alertVars, histVars, queryVars,
                 metricsVars, evalVars, restartVars, budgetVars, cronVars>>

GateClock == AdvanceClock(HOUR, StartTime + MaxGateSteps * HOUR)

GateIdle ==
  /\ setupMode = FALSE
  /\ auth = AuthDisabled
  /\ license = NoLicense
  /\ served = 0
  /\ httpRequest = [method |-> "", path |-> Root, header |-> NoHeader]
  /\ httpResponse = NoAnswer

----------------------------------------------------------------------------
(* POST /api/action/restart-service and /api/action/restart-docker *)

MaxRestarts == 2        \* restart requests explored by RestartSpec

\* A name is the sequence of its characters.  Alnum holds the letters and
\* digits the modelled names use, out of the class [a-zA-Z0-9].
Alnum == {"a", "b", "d", "e", "w", "x", "1"}

\* /^[a-zA-Z0-9._@:-]+$/
SERVICE_NAME_CHARS == Alnum \cup {".", "_", "@", ":", "-"}

\* /^[a-zA-Z0-9._-]+$/
CONTAINER_NAME_CHARS == Alnum \cup {".", "_", "-"}

\* regex.test(name) for a character class repeated one or more times between
\* ^ and $
Matches(chars, class) ==
  /\ Len(chars) >= 1
  /\ \A i \in 1..Len(chars) : chars[i] \in class

\* !name || typeof name !== 'string' || !regex.test(name)
InvalidName(name, class) ==
  \/ name.type # "string"
  \/ name.chars = <<>>
  \/ ~Matches(name.chars, class)

Web      == <<"w", "e", "b">>
Unit     == <<"w", "@", "1">>
Db       == <<"d", "b">>
Spaced   == <<"a", " ", "b">>
Other    == <<"x">>
Injected == <<"w", "e", "b", ";", "x">>

\* req.body.name: absent, a number, or a string
Str(chars) == [type |-> "string", chars |-> chars]
RequestNames ==
  {[type |-> "undefined", chars |-> <<>>], [type |-> "number", chars |-> <<>>]}
    \cup {Str(c) : c \in {<<>>, Web, Unit, Db, Spaced, Other, Injected}}

\* CONFIG.systemdServices, an array once the server listens
systemdServices == <<Web, Unit, Spaced>>

\* CONFIG.dockerContainers as config.json gives it; nothing fills it in when
\* config.json leaves it out
DockerConfigs ==
  { [mode |-> "auto", names |-> <<>>],
    [mode |-> "list", names |-> <<Db, Spaced>>],
    [mode |-> "undefined", names |-> <<>>] }

\* out.split('\n').filter(Boolean) of what docker ps -a printed; run resolves
\* '' when the command fails
Listings == { <<>>, <<Db>>, <<Db, Unit>> }

\* what is-active or docker inspect printed, '' when it failed
StatusOutputs == {"", "active"}

includesAnything(list, chars) == TRUE

\* Array.prototype.includes
includes(list, chars) == \E i \in 1..Len(list) : list[i] = chars

\* one call of run(cmd) by a restart handler and what it resolved to
Ran(verb, chars, out) == [verb |-> verb, name |-> chars, out |-> out]

NoRestartResponse ==
  [route |-> "", name |-> Str(<<>>), code |-> 0, ok |-> FALSE, error |-> "", status |-> ""]

RestartAnswer(route, name, code, error, status) ==
  [route |-> route, name |-> name, code |-> code, ok |-> code = 200,
   error |-> error, status |-> status]

RestartService(name, status) ==
  /\ restarts < MaxRestarts
  /\ restarts' = restarts + 1
  /\ IF InvalidName(name, SERVICE_NAME_CHARS)
       THEN /\ restartResponse' = RestartAnswer("restart-service", name, 400, "Invalid service name", "")
            /\ commands' = commands
       ELSE IF ~includes(systemdServices, name.chars)
         THEN /\ restartResponse' = RestartAnswer("restart-service", name, 400, "Unknown service", "")
              /\ commands' = commands
         ELSE /\ commands' = commands \o
                   << Ran("systemctl --user restart", name.chars, <<>>),
                      Ran("systemctl --user is-active", name.chars, <<status>>) >>
              /\ restartResponse' = RestartAnswer("restart-service", name, 200, "",
                                           IF status = "" THEN "unknown" ELSE status)
  /\ UNCHANGED <<now, cacheVars, alertVars, histVars, queryVars, metricsVars, evalVars,
                 gateVars, dockerContainers, budgetVars, cronVars>>

RestartDocker(name, listing, status) ==
  /\ restarts < MaxRestarts
  /\ restarts' = restarts + 1
  /\ LET listed == IF dockerContainers.mode = "auto"
                     THEN <<Ran("docker ps -a", <<>>, listing)>> ELSE <<>>
         knownContainers == IF dockerContainers.mode = "auto"
                              THEN listing ELSE dockerContainers.names
     IN IF InvalidName(name, CONTAINER_NAME_CHARS)
          THEN /\ restartResponse' = RestartAnswer("restart-docker", name, 400, "Invalid container name", "")
               /\ commands' = commands
          ELSE IF dockerContainers.mode = "undefined"
            THEN /\ restartResponse' = RestartAnswer("restart-docker", name, 500, "TypeError", "")
                 /\ commands' = commands
            ELSE IF ~includes(knownContainers, name.chars)
              THEN /\ restartResponse' = RestartAnswer("restart-docker", name, 400, "Unknown container", "")
                   /\ commands' = commands \o listed
              ELSE /\ commands' = commands \o listed \o
                        << Ran("docker restart", name.chars, <<>>),
                           Ran("docker inspect", name.chars, <<status>>) >>
                   /\ restartResponse' = RestartAnswer("restart-docker", name, 200, "",
                                                IF status = "" THEN "unknown" ELSE status)
  /\ UNCHANGED <<now, cacheVars, alertVars, histVars, queryVars, metricsVars, evalVars,
                 gateVars, dockerContainers, budgetVars, cronVars>>

RestartIdle ==
  /\ dockerContainers = [mode |-> "auto", names |-> <<>>]
  /\ commands = <<>>
  /\ restarts = 0
  /\ restartResponse = NoRestartResponse

----------------------------------------------------------------------------
(* Monthly budget alert of the cost collector *)

MaxMonths == 12         \* calendar months BudgetSpec lets pass

\* _budgetAlertSent before any alert: the literal false, equal to no month
NotSent == -1

\* CONFIG.budget.monthly: absent (0) or a positive amount
Budgets == {0, 10}

\* month-to-date totals a collection can find in costs.jsonl
Costs == {0, 9, 10, 11}

\* new Date().getMonth(): the index of the month within its year
getMonth(m) == m % 12

\* is a budget configured?
BudgetSet == monthlyBudget > 0

\* checkBudgetAlert: the value of _budgetAlertSent it leaves behind
checkBudgetAlert(monthCost) ==
  IF ~BudgetSet THEN budgetAlertSent
  ELSE IF budgetAlertSent = getMonth(calMonth) THEN budgetAlertSent
  ELSE IF monthCost >= monthlyBudget THEN getMonth(calMonth)
  ELSE budgetAlertSent

\* does checkBudgetAlert send the Telegram message?
SendsBudgetAlert(monthCost) ==
  /\ BudgetSet
  /\ budgetAlertSent # getMonth(calMonth)
  /\ monthCost >= monthlyBudget

\* one run of collectCostSample that finds monthCost for the current month
collectCostSample(monthCost) ==
  /\ budgetAlertSent' = checkBudgetAlert(monthCost)
  /\ monthAlerts' = IF SendsBudgetAlert(monthCost) THEN monthAlerts + 1 ELSE monthAlerts
  /\ monthReached' = (monthReached \/ (BudgetSet /\ monthCost >= monthlyBudget))
  /\ UNCHANGED <<now, monthlyBudget, calMonth, cacheVars, alertVars, histVars, queryVars,
                 metricsVars, evalVars, gateVars, restartVars, cronVars>>

\* the calendar moves on to the next month
NextMonth ==
  /\ calMonth < MaxMonths
  /\ calMonth' = calMonth + 1
  /\ monthReached' = FALSE
  /\ monthAlerts' = 0
  /\ UNCHANGED <<now, monthlyBudget, budgetAlertSent, cacheVars, alertVars, histVars, queryVars,
                 metricsVars, evalVars, gateVars, restartVars, cronVars>>

BudgetIdle ==
  /\ monthlyBudget = 0
  /\ calMonth = 0
  /\ budgetAlertSent = NotSent
  /\ monthReached = FALSE
  /\ monthAlerts = 0

----------------------------------------------------------------------------
(* GET /api/cron and the cron mutations, for one profile *)

MaxCronGets == 2        \* GET /api/cron calls that wait for getCronJobs at once
MaxCronEdits == 2       \* cron mutations CronSpec lets happen
MaxCronSteps == 3       \* clock steps of CronSpec

CRON_CACHE_TTL == 30

\* cache.data before the first list is stored: null
NoList == -1

\* getCronCache: the entry a profile starts with
getCronCache == [data |-> NoList, time |-> 0]

NoCronResponse == [jobs |-> 0, floor |-> 0]

\* does GET /api/cron answer from the cache?
CronCacheHit == cronCache.data # NoList /\ now - cronCache.time < CRON_CACHE_TTL

\* GET /api/cron up to its answer from the cache or its call of getCronJobs;
\* floor records the newest completed mutation at the time the request is made
CronGet ==
  /\ IF CronCacheHit
       THEN /\ cronResponse' = [jobs |-> cronCache.data, floor |-> cronDone]
            /\ UNCHANGED cronGets
       ELSE /\ Len(cronGets) < MaxCronGets
            /\ cronGets' = Append(cronGets, [start |-> now, jobs |-> NoList, floor |-> cronDone])
            /\ UNCHANGED cronResponse
  /\ UNCHANGED <<now, cronCache, cronJobs, cronMutation, cronDone, cacheVars, alertVars, histVars,
                 queryVars, metricsVars, evalVars, gateVars, restartVars, budgetVars>>

\* getCronJobs of a waiting call reads the list openclaw holds
CronFetch(i) ==
  /\ i \in 1..Len(cronGets)
  /\ cronGets[i].jobs = NoList
  /\ cronGets' = [cronGets EXCEPT ![i].jobs = cronJobs]
  /\ UNCHANGED <<now, cronCache, cronJobs, cronMutation, cronDone, cronResponse, cacheVars, alertVars,
                 histVars, queryVars, metricsVars, evalVars, gateVars, restartVars, budgetVars>>

\* GET /api/cron after getCronJobs resolved: store the list under the time
\* read before the call, and answer with it
CronGetFinish(i) ==
  /\ i \in 1..Len(cronGets)
  /\ cronGets[i].jobs # NoList
  /\ cronCache' = [data |-> cronGets[i].jobs, time |-> cronGets[i].start]
  /\ cronResponse' = [jobs |-> cronGets[i].jobs, floor |-> cronGets[i].floor]
  /\ cronGets' = SubSeq(cronGets, 1, i - 1) \o SubSeq(cronGets, i + 1, Len(cronGets))
  /\ UNCHANGED <<now, cronJobs, cronMutation, cronDone, cacheVars, alertVars, histVars,
                 queryVars, metricsVars, evalVars, gateVars, restartVars, budgetVars>>

\* a cron mutation (toggle, run, create, delete): its openclaw command takes effect
CronEdit ==
  /\ cronMutation = NoList
  /\ cronJobs < MaxCronEdits
  /\ cronJobs' = cronJobs + 1
  /\ cronMutation' = cronJobs + 1
  /\ UNCHANGED <<now, cronCache, cronGets, cronDone, cronResponse, cacheVars, alertVars, histVars,
                 queryVars, metricsVars, evalVars, gateVars, restartVars, budgetVars>>

\* the mutation after its command returned: invalidate the cache and answer
CronEditFinish ==
  /\ cronMutation # NoList
  /\ cronCache' = [cronCache EXCEPT !.time = 0]
  /\ cronDone' = cronMutation
  /\ cronMutation' = NoList
  /\ UNCHANGED <<now, cronJobs, cronGets, cronResponse, cacheVars, alertVars, histVars,
                 queryVars, metricsVars, evalVars, gateVars, restartVars, budgetVars>>

\* the clock moves on by half the lifetime of a cached list
CronClock ==
  AdvanceClock(CRON_CACHE_TTL \div 2, StartTime + MaxCronSteps * (CRON_CACHE_TTL \div 2))

CronIdle ==
  /\ cronCache = getCronCache
  /\ cronJobs = 0
  /\ cronGets = <<>>
  /\ cronMutation = NoList
  /\ cronDone = 0
  /\ cronResponse = NoCronResponse

ReqIdle == QueryIdle /\ MetricsIdle /\ EvalIdle /\ GateIdle /\ RestartIdle /\ BudgetIdle /\ CronIdle

----------------------------------------------------------------------------
(* CacheSpec *)

CacheInit ==
  /\ now = StartTime
  /\ ReqIdle
  /\ botCache \in [Keys -> {NoEntry} \cup PersistedEntries]
  /\ probes = [k \in Keys |-> <<>>]
  /\ ret = NoRet
  /\ staleGets = [k \in Keys |-> 0]
  /\ lastGood = [k \in Keys |-> botCache[k].data]
  /\ probeFailed = [k \in Keys |-> FALSE]
  /\ preSwitch = [k \in Keys |-> [stale |-> FALSE, oldDone |-> FALSE]]
  /\ AlertIdle
  /\ HistoryIdle

CacheNext ==
  \/ \E k \in Keys : GetBotStatus(k)
  \/ \E k \in Keys : FetchStatusDone(k)
  \/ \E k \in Keys : FetchFinish(k)
  \/ InvalidateBotCache
  \/ CacheClock

CacheSpec == CacheInit /\ [][CacheNext]_vars

----------------------------------------------------------------------------
(* TimeoutSpec: the bot status cache when every status command times out *)

TimeoutNext ==
  \/ \E k \in Keys : GetBotStatus(k)
  \/ \E k \in Keys : FetchStatusTimesOut(k)
  \/ \E k \in Keys : FetchFinish(k)
  \/ CacheClock

TimeoutSpec == CacheInit /\ [][TimeoutNext]_vars

----------------------------------------------------------------------------
(* ProbeSpec: the bot status cache with probes that run to their end *)

\* a server that starts with, for each key, no entry or the entry that
\* data/bot-cache.json holds, written one ttl ago
ProbeInit ==
  /\ now = StartTime
  /\ ReqIdle
  /\ botCache \in [Keys -> {NoEntry, [time |-> StartTime - BotCacheTtl, data |-> Result(TRUE),
                                       refreshing |-> FALSE]}]
  /\ probes = [k \in Keys |-> <<>>]
  /\ ret = NoRet
  /\ staleGets = [k \in Keys |-> 0]
  /\ lastGood = [k \in Keys |-> botCache[k].data]
  /\ probeFailed = [k \in Keys |-> FALSE]
  /\ preSwitch = [k \in Keys |-> [stale |-> FALSE, oldDone |-> FALSE]]
  /\ AlertIdle
  /\ HistoryIdle

ProbeNext ==
  \/ \E k \in Keys : GetBotStatus(k)
  \/ \E k \in Keys : FetchStatusDone(k)
  \/ \E k \in Keys : FetchFinish(k)
  \/ CacheClock

\* exec is given a timeout for every command of fetchBotStatus, so run()
\* resolves and the call resumes after each await
ProbeSpec ==
  /\ ProbeInit
  /\ [][ProbeNext]_vars
  /\ \A k \in Keys : WF_vars(FetchStatusDone(k)) /\ WF_vars(FetchFinish(k))

----------------------------------------------------------------------------
(* AlertSpec *)

AlertInit ==
  /\ now = StartTime
  /\ ReqIdle
  /\ CacheIdle
  /\ AlertIdle
  /\ HistoryIdle

AlertNext ==
  \/ AlertTick
  \/ PublishSnapshot
  \/ AlertClock

AlertSpec == AlertInit /\ [][AlertNext]_vars

----------------------------------------------------------------------------
(* StaleSpec: the alert worker when GET /api/metrics is called once and *)
(* never again, so that the snapshot it published is never replaced      *)

\* rule i fired one timer period before the start and recovered at the
\* start: its cooldown runs for another cooldownMs - INTERVAL
JustRecovered(i) ==
  [status |-> "resolved", firedAt |-> StartTime - INTERVAL, resolvedAt |-> StartTime,
   accumulator |-> 0]

StaleInit ==
  /\ now = StartTime
  /\ ReqIdle
  /\ CacheIdle
  /\ HistoryIdle
  /\ lastMetricSnapshot \in Snapshots
  /\ sent = <<>>
  /\ outcomes = <<>>
  /\ lastTickAt = StartTime
  /\ \/ /\ alertState = [i \in RuleIds |-> NoState]
        /\ alertHistory = <<>>
        /\ fires = [i \in RuleIds |-> 0]
        /\ recoveries = [i \in RuleIds |-> 0]
        /\ lastFireAt = [i \in RuleIds |-> Null]
     \/ /\ alertState = [i \in RuleIds |-> IF i = 2 THEN JustRecovered(i) ELSE FreshState]
        /\ alertHistory = <<[ruleIndex |-> 2, firedAt |-> StartTime - INTERVAL,
                             active |-> FALSE, resolvedAt |-> StartTime]>>
        /\ fires = [i \in RuleIds |-> IF i = 2 THEN 1 ELSE 0]
        /\ recoveries = [i \in RuleIds |-> IF i = 2 THEN 1 ELSE 0]
        /\ lastFireAt = [i \in RuleIds |-> IF i = 2 THEN StartTime - INTERVAL ELSE Null]

StaleNext ==
  \/ AlertTick
  \/ AlertClock

\* setInterval keeps calling the callback, and time passes
StaleSpec == StaleInit /\ [][StaleNext]_vars /\ WF_vars(AlertTick) /\ WF_vars(AlertClock)

----------------------------------------------------------------------------
(* NotifySpec: the alert worker with the deliveries of its notifications *)

NotifyNext ==
  \/ AlertTick
  \/ PublishSnapshot
  \/ SettleSends
  \/ AlertClock

NotifySpec == AlertInit /\ [][NotifyNext]_vars

----------------------------------------------------------------------------
(* AgedAlertSpec: the alert worker of a server that has been up for a while *)

\* the service rule is the only one that has fired so far: nginx has gone
\* down for one tick every eight ticks, and the cpu has stayed below 90
PastSpacing == 8 * INTERVAL

\* when the j-th newest alert of the past fired
PastFiredAt(j) == StartTime - j * PastSpacing

\* the history after n such alerts, each recovered one tick after it fired
PastHistory(n) ==
  [j \in 1..n |-> [ruleIndex |-> 3, firedAt |-> PastFiredAt(j),
                   active |-> FALSE, resolvedAt |-> PastFiredAt(j) + INTERVAL]]

AgedAlertInit ==
  /\ now = StartTime
  /\ ReqIdle
  /\ CacheIdle
  /\ HistoryIdle
  /\ lastMetricSnapshot = Snapshot(89, 50, 50, <<Service("nginx", TRUE)>>, <<>>, <<>>)
  /\ \E n \in {HistoryCap - 1, HistoryCap} :
       /\ alertHistory = PastHistory(n)
       /\ fires = [i \in RuleIds |-> IF i = 3 THEN n ELSE 0]
       /\ recoveries = [i \in RuleIds |-> IF i = 3 THEN n ELSE 0]
  /\ alertState = [i \in RuleIds |->
        IF i = 3 THEN [status |-> "resolved", firedAt |-> PastFiredAt(1),
                       resolvedAt |-> PastFiredAt(1) + INTERVAL, accumulator |-> 0]
        ELSE FreshState]
  /\ sent = <<>>
  /\ lastTickAt = StartTime
  /\ lastFireAt = [i \in RuleIds |-> IF i = 3 THEN PastFiredAt(1) ELSE Null]
  /\ outcomes = <<>>

AgedAlertSpec == AgedAlertInit /\ [][AlertNext]_vars

----------------------------------------------------------------------------
(* LongFiringSpec: the alert worker of a process in which the cpu rules   *)
(* have been firing for a long time while the service rule came and went *)

\* when the cpu rose to the threshold and the first rule fired
LongAgo == StartTime - HistoryCap * PastSpacing

\* The cpu has been at the threshold since LongAgo: rule 1 fired then, rule
\* 2 one tick later, and both are still firing. Since then nginx went down
\* and came back HistoryCap - 2 times, so the history is full and its two
\* oldest entries are the active entries of rules 1 and 2.
LongFiringInit ==
  /\ now = StartTime
  /\ ReqIdle
  /\ CacheIdle
  /\ HistoryIdle
  /\ lastMetricSnapshot = Snapshot(90, 50, 50, <<Service("nginx", TRUE)>>, <<>>, <<>>)
  /\ alertHistory = PastHistory(HistoryCap - 2) \o
        << [ruleIndex |-> 2, firedAt |-> LongAgo + INTERVAL, active |-> TRUE, resolvedAt |-> Null],
           [ruleIndex |-> 1, firedAt |-> LongAgo, active |-> TRUE, resolvedAt |-> Null] >>
  /\ alertState = [i \in RuleIds |->
        CASE i = 1 -> [status |-> "firing", firedAt |-> LongAgo, resolvedAt |-> Null,
                       accumulator |-> 0]
          [] i = 2 -> [status |-> "firing", firedAt |-> LongAgo + INTERVAL, resolvedAt |-> Null,
                       accumulator |-> StartTime - LongAgo + INTERVAL]
          [] i = 3 -> [status |-> "resolved", firedAt |-> PastFiredAt(1),
                       resolvedAt |-> PastFiredAt(1) + INTERVAL, accumulator |-> 0]
          [] OTHER -> FreshState]
  /\ fires = [i \in RuleIds |-> IF i = 3 THEN HistoryCap - 2 ELSE IF i \in {1, 2} THEN 1 ELSE 0]
  /\ recoveries = [i \in RuleIds |-> IF i = 3 THEN HistoryCap - 2 ELSE 0]
  /\ lastFireAt = [i \in RuleIds |->
        CASE i = 1 -> LongAgo [] i = 2 -> LongAgo + INTERVAL [] i = 3 -> PastFiredAt(1)
          [] OTHER -> Null]
  /\ sent = <<>>
  /\ lastTickAt = StartTime
  /\ outcomes = <<>>

LongFiringSpec == LongFiringInit /\ [][AlertNext]_vars

----------------------------------------------------------------------------
(* HistorySpec *)

HistoryInit ==
  /\ now = StartTime
  /\ ReqIdle
  /\ CacheIdle
  /\ AlertIdle
  /\ historyFile \in SeqsUpTo(InitLines, MaxInitLines)
  /\ runs = <<>>
  /\ done = NoDone
  /\ lastCollectAt = StartTime - HISTORY_INTERVAL
  /\ pruneFloor = 0

HistoryNext ==
  \/ StartCollect
  \/ AppendSample
  \/ AppendFails
  \/ PruneRead
  \/ PruneReadFails
  \/ PruneWrite
  \/ PruneWriteFails
  \/ HistoryClock

HistorySpec == HistoryInit /\ [][HistoryNext]_vars

----------------------------------------------------------------------------
(* QuerySpec *)

QueryInit ==
  /\ now = StartTime
  /\ CacheIdle
  /\ AlertIdle
  /\ historyFile \in FilesUpTo(QueryLines, MaxQueryLines)
  /\ runs = <<>>
  /\ done = NoDone
  /\ lastCollectAt = StartTime - HISTORY_INTERVAL
  /\ pruneFloor = 0
  /\ QueryIdle
  /\ MetricsIdle
  /\ EvalIdle
  /\ GateIdle
  /\ RestartIdle
  /\ BudgetIdle
  /\ CronIdle

QueryNext ==
  \/ \E m \in MetricParams, p \in HoursParams : HistoryQuery(m, p)
  \/ HistoryQueryRead
  \/ HistoryQueryReadFails
  \/ QueryClock

QuerySpec == QueryInit /\ [][QueryNext]_vars

----------------------------------------------------------------------------
(* MetricsSpec *)

\* a server that starts with no data/bot-cache.json or with one written half
\* a ttl ago
MetricsInit ==
  /\ now = StartTime
  /\ ReqIdle
  /\ \E e \in {NoEntry, [time |-> StartTime - CacheStep, data |-> Result(TRUE),
                          refreshing |-> FALSE]} :
       botCache = [k \in Keys |-> e]
  /\ probes = [k \in Keys |-> <<>>]
  /\ ret = NoRet
  /\ staleGets = [k \in Keys |-> 0]
  /\ lastGood = [k \in Keys |-> botCache[k].data]
  /\ probeFailed = [k \in Keys |-> FALSE]
  /\ preSwitch = [k \in Keys |-> [stale |-> FALSE, oldDone |-> FALSE]]
  /\ AlertIdle
  /\ HistoryIdle

\* the fetchBotStatus calls the handler starts stay in flight: how they end
\* is explored by CacheSpec
MetricsNext ==
  \/ MetricsStart
  \/ SourceSettles
  \/ MetricsFinish

MetricsSpec == MetricsInit /\ [][MetricsNext]_vars

----------------------------------------------------------------------------
(* WarmupSpec: the first minutes of a process that found no                *)
(* data/bot-cache.json: cache warm-up, GET /api/metrics and the alert worker *)

MaxWarmupSteps == 1     \* clock advances (of one timer period) explored by WarmupSpec

\* the listen callback has called getBotStatus for every configured bot
\* (the warm-up, which nothing waits for) and started the alert worker
WarmupInit ==
  /\ now = StartTime
  /\ ReqIdle
  /\ botCache = [k \in Keys |-> [time |-> 0, data |-> PlaceholderFull, refreshing |-> TRUE]]
  /\ probes = [k \in Keys |-> <<[pc |-> "status", out |-> "pending", old |-> FALSE]>>]
  /\ ret = [key |-> Bots[Len(Bots)], data |-> PlaceholderShort]
  /\ staleGets = [k \in Keys |-> 1]
  /\ lastGood = [k \in Keys |-> NoEntry.data]
  /\ probeFailed = [k \in Keys |-> FALSE]
  /\ preSwitch = [k \in Keys |-> [stale |-> FALSE, oldDone |-> FALSE]]
  /\ AlertIdle
  /\ HistoryIdle

\* the clock moves on to the instant the alert timer is due next
WarmupClock ==
  /\ now - lastTickAt < INTERVAL
  /\ AdvanceClock(INTERVAL, StartTime + MaxWarmupSteps * INTERVAL)

\* the first GET /api/metrics of the dashboard
FirstPoll ==
  /\ metricsResponse = NoMetricsResponse
  /\ MetricsStart

WarmupNext ==
  \/ \E k \in Keys : FetchStatusDone(k)
  \/ \E k \in Keys : FetchFinish(k)
  \/ FirstPoll
  \/ SourceSettles
  \/ MetricsFinish
  \/ AlertTick
  \/ WarmupClock

WarmupSpec == WarmupInit /\ [][WarmupNext]_vars

----------------------------------------------------------------------------
(* EvalSpec *)

EvalInit ==
  /\ now = StartTime
  /\ CacheIdle
  /\ AlertIdle
  /\ HistoryIdle
  /\ QueryIdle
  /\ MetricsIdle
  /\ evalInput \in [rule : EvalRules, snapshot : EvalSnapshots]
  /\ evalOutput = NoEval
  /\ GateIdle
  /\ RestartIdle
  /\ BudgetIdle
  /\ CronIdle

EvalNext == Evaluate

EvalSpec == EvalInit /\ [][EvalNext]_vars

----------------------------------------------------------------------------
(* GateSpec: requests through the middleware chain *)

\* CONFIG as loadConfig returns it: config.json may hold any auth block and
\* any license string; without config.json the example configuration is used,
\* which has neither a license nor auth switched on
GateInit ==
  /\ now = StartTime
  /\ CacheIdle
  /\ AlertIdle
  /\ HistoryIdle
  /\ QueryIdle
  /\ MetricsIdle
  /\ EvalIdle
  /\ setupMode \in BOOLEAN
  /\ auth \in IF setupMode THEN {AuthDisabled} ELSE {AuthDisabled, AuthEnabled}
  /\ license \in IF setupMode THEN {NoLicense} ELSE {NoLicense} \cup LicenseKeys
  /\ served = 0
  /\ httpRequest = [method |-> "", path |-> Root, header |-> NoHeader]
  /\ httpResponse = NoAnswer
  /\ RestartIdle
  /\ BudgetIdle
  /\ CronIdle

GateNext ==
  \/ \E req \in Requests, header \in Headers :
       \E key \in BodyKeys(req) : HttpRequest(req, header, key)
  \/ GateClock

GateSpec == GateInit /\ [][GateNext]_vars

----------------------------------------------------------------------------
(* BudgetSpec: the cost collector over the months of more than a year *)

BudgetInit ==
  /\ now = StartTime
  /\ CacheIdle
  /\ AlertIdle
  /\ HistoryIdle
  /\ QueryIdle
  /\ MetricsIdle
  /\ EvalIdle
  /\ GateIdle
  /\ RestartIdle
  /\ CronIdle
  /\ monthlyBudget \in Budgets
  /\ calMonth = 0
  /\ budgetAlertSent = NotSent
  /\ monthReached = FALSE
  /\ monthAlerts = 0

BudgetNext ==
  \/ \E monthCost \in Costs : collectCostSample(monthCost)
  \/ NextMonth

BudgetSpec == BudgetInit /\ [][BudgetNext]_vars

----------------------------------------------------------------------------
(* CronSpec: GET /api/cron among cron mutations *)

CronInit ==
  /\ now = StartTime
  /\ CacheIdle
  /\ AlertIdle
  /\ HistoryIdle
  /\ QueryIdle
  /\ MetricsIdle
  /\ EvalIdle
  /\ GateIdle
  /\ RestartIdle
  /\ BudgetIdle
  /\ CronIdle

CronNext ==
  \/ CronGet
  \/ \E i \in 1..MaxCronGets : CronFetch(i)
  \/ \E i \in 1..MaxCronGets : CronGetFinish(i)
  \/ CronEdit
  \/ CronEditFinish
  \/ CronClock

CronSpec == CronInit /\ [][CronNext]_vars

----------------------------------------------------------------------------
(* RestartSpec: requests to the two restart actions *)

RestartInit ==
  /\ now = StartTime
  /\ CacheIdle
  /\ AlertIdle
  /\ HistoryIdle
  /\ QueryIdle
  /\ MetricsIdle
  /\ EvalIdle
  /\ GateIdle
  /\ dockerContainers \in DockerConfigs
  /\ commands = <<>>
  /\ restarts = 0
  /\ restartResponse = NoRestartResponse
  /\ BudgetIdle
  /\ CronIdle

RestartNext ==
  \/ \E name \in RequestNames, status \in StatusOutputs : RestartService(name, status)
  \/ \E name \in RequestNames, listing \in Listings, status \in StatusOutputs :
       RestartDocker(name, listing, status)

RestartSpec == RestartInit /\ [][RestartNext]_vars

----------------------------------------------------------------------------
(* Claims about the bot status cache, checked under CacheSpec *)

InFlight(k) == Len(probes[k])

\* a fetchBotStatus call for k returns in this step
ProbeCompletes(k) == Len(probes'[k]) < Len(probes[k])

\* C1: for every key at most one fetchBotStatus probe is in flight at any
\* time, and any number of getBotStatus calls on a key that is not fresh,
\* with no probe completion in between, leave exactly one probe in flight.
C1_SingleFlight ==
  \A k \in Keys :
    /\ InFlight(k) <= 1
    /\ staleGets[k] >= 1 => InFlight(k) = 1

\* several calls found "main" stale while its one probe is still running
C1_Witness ==
  /\ staleGets["main"] = MaxStaleGets
  /\ InFlight("main") = 1
  /\ botCache["main"].refreshing

\* C2: getBotStatus on a stale or missing entry resolves in the step that
\* calls it, with the existing data or the placeholder when there is no
\* entry, while the probe for the key (launched by this call or earlier) is
\* still in flight and the entry is marked refreshing.
C2_ImmediateReturn ==
  [][\A k \in Keys :
       (GetBotStatus(k) /\ ~IsFresh(k)) =>
          /\ ret' = [key |-> k,
                     data |-> IF HasEntry(k) THEN botCache[k].data ELSE PlaceholderShort]
          /\ InFlight(k)' >= 1
          /\ botCache'[k].refreshing
          /\ botCache'[k].data = (IF HasEntry(k) THEN botCache[k].data ELSE PlaceholderFull)
    ]_vars

\* the caller of a never-probed key holds the placeholder while the probe it
\* launched has not got past its first command
C2_Witness ==
  /\ ret = [key |-> "work", data |-> PlaceholderShort]
  /\ InFlight("work") = 1
  /\ probes["work"][1].pc = "status"

\* C3: a failing probe leaves the entry's data and time as they were and
\* clears only refreshing, and hands nothing to a getBotStatus caller; every
\* entry holds the data last stored by a load or a successful probe, or the
\* placeholder when there was none.
C3_FailureKeepsStale ==
  /\ [][\A k \in Keys :
          (ProbeCompletes(k) /\ ~ResultBuilds) =>
             /\ botCache'[k].data = botCache[k].data
             /\ botCache'[k].time = botCache[k].time
             /\ ~botCache'[k].refreshing
             /\ ret' = ret
       ]_vars
  /\ [](\A k \in Keys :
          HasEntry(k) =>
            botCache[k].data = (IF lastGood[k] = NoEntry.data THEN PlaceholderFull
                                                              ELSE lastGood[k]))

\* a probe of "main" has failed, and a call made after the failure got the
\* value loaded at start, which the entry still holds with its old time
C3_Witness ==
  /\ probeFailed["main"]
  /\ staleGets["main"] >= 1
  /\ ret = [key |-> "main", data |-> Result(TRUE)]
  /\ botCache["main"].data = Result(TRUE)
  /\ botCache["main"].time = StartTime - BotCacheTtl

\* C4 (as claimed): when the probe's commands succeed, its completion
\* replaces the entry by the probe result stamped with the completion time
\* and refreshing = false.
C4_SuccessReplacesEntry ==
  [][\A k \in Keys :
       (ProbeCompletes(k) /\ InFlight(k) = 1 /\ probes[k][1].out = "jsonSessions") =>
          botCache'[k] = [time |-> now, data |-> Result(TRUE), refreshing |-> FALSE]
    ]_vars

\* the entry of k is younger than the ttl
WithinTtl(k) == botCache[k] # NoEntry /\ now - botCache[k].time < BotCacheTtl

\* C27: getBotStatus on a key whose entry is younger than the ttl returns the
\* entry's value, launches no probe and leaves the cache as it is; an entry
\* that holds the placeholder of a never-probed key is never younger than
\* the ttl.
C27_FreshReturnedUntouched ==
  /\ [][\A k \in Keys :
          (GetBotStatus(k) /\ WithinTtl(k)) =>
             /\ ret' = [key |-> k, data |-> botCache[k].data]
             /\ probes' = probes
             /\ botCache' = botCache
       ]_vars
  /\ [][\A k \in Keys :
          botCache'[k].data = PlaceholderFull => ~(now' - botCache'[k].time < BotCacheTtl)
       ]_vars

\* a call on "main" returned the value loaded at start, half a ttl old,
\* without starting a probe, although "work" has one running
C27_Witness ==
  /\ ret = [key |-> "main", data |-> Result(TRUE)]
  /\ botCache["main"] = [time |-> StartTime - CacheStep, data |-> Result(TRUE),
                         refreshing |-> FALSE]
  /\ now = StartTime
  /\ InFlight("main") = 0
  /\ ~probeFailed["main"]
  /\ InFlight("work") = 1

C29_GuardPerKey ==
  [][\A k \in Keys :
       /\ (GetBotStatus(k) /\ ~WithinTtl(k) /\ (botCache[k] = NoEntry \/ ~botCache[k].refreshing)) =>
             /\ InFlight(k)' = InFlight(k) + 1
             /\ botCache'[k].refreshing
       /\ GetBotStatus(k) =>
             \A j \in Keys \ {k} : botCache'[j] = botCache[j] /\ probes'[j] = probes[j]
       /\ ProbeCompletes(k) =>
             \A j \in Keys \ {k} : botCache'[j] = botCache[j] /\ probes'[j] = probes[j]
    ]_vars

\* the probe of "work" was launched while the probe of "main" was already
\* past its first command and still running
C29_Witness ==
  /\ InFlight("main") = 1
  /\ probes["main"][1].pc = "uptime"
  /\ botCache["main"].refreshing
  /\ InFlight("work") = 1
  /\ probes["work"][1].pc = "status"
  /\ botCache["work"].refreshing
  /\ ret.key = "work"

C34_ProbesEnd ==
  /\ \A k \in Keys : ~botCache[k].refreshing
  /\ [][\A k \in Keys : ProbeCompletes(k) => ~botCache'[k].refreshing]_vars
  /\ \A k \in Keys : (InFlight(k) > 0) ~> (InFlight(k) = 0)
  /\ \A k \in Keys : botCache[k].refreshing ~> ~botCache[k].refreshing

\* a probe for a key loaded from the file has ended, the flag is down again
\* and the other key is being probed
C34_Witness ==
  /\ probeFailed["main"] /\ InFlight("main") = 0
  /\ botCache["main"].data.kind = "result" /\ ~botCache["main"].refreshing
  /\ InFlight("work") = 1 /\ botCache["work"].refreshing

----------------------------------------------------------------------------
(* Claims about the alert worker, checked under AlertSpec *)

\* the timer callback runs in this step and gets past its early return
TickRan == lastTickAt' # lastTickAt /\ Len(Rules) > 0 /\ lastMetricSnapshot # NoSnapshot

StatusOf(state) == IF state = NoState THEN "idle" ELSE state.status
AccOf(state) == state.accumulator

\* the rule's predicate on the snapshot the tick reads
Pred(i) == evaluateRule(Rules[i], lastMetricSnapshot)

\* notifications of a kind the step dispatches for rule i
Dispatched(i, kind) ==
  Cardinality({ j \in 1..Len(sent') : sent'[j] = [rule |-> i, kind |-> kind] })

PlainRules == { i \in RuleIds : ~UsesAccumulator(Rules[i]) }
DurationRules == { i \in RuleIds : UsesAccumulator(Rules[i]) }

\* C5: a rule evaluated without an accumulator, starting from idle, fires
\* exactly once on the first tick whose predicate is true, sends nothing on
\* the true ticks that follow, and sends exactly one recovery on the first
\* false tick after them; a rule that has fired n times has recovered n or
\* n - 1 times.
C5_OneFireOneRecovery ==
  /\ [][TickRan =>
          \A i \in PlainRules :
            LET st == StatusOf(alertState[i]) IN
            /\ (st = "idle" /\ Pred(i)) =>
                  /\ Dispatched(i, "fire") = 1 /\ Dispatched(i, "recovery") = 0
                  /\ alertState'[i].status = "firing"
            /\ (st = "firing" /\ Pred(i)) =>
                  /\ Dispatched(i, "fire") = 0 /\ Dispatched(i, "recovery") = 0
                  /\ alertState'[i].status = "firing"
            /\ (st = "firing" /\ ~Pred(i)) =>
                  /\ Dispatched(i, "fire") = 0 /\ Dispatched(i, "recovery") = 1
            /\ (st = "idle" /\ ~Pred(i)) =>
                  /\ Dispatched(i, "fire") = 0 /\ Dispatched(i, "recovery") = 0
     ]_vars
  /\ [](\A i \in PlainRules :
          /\ StatusOf(alertState[i]) = "idle" => fires[i] = 0
          /\ StatusOf(alertState[i]) = "firing" => fires[i] = recoveries[i] + 1
          /\ StatusOf(alertState[i]) = "resolved" => fires[i] = recoveries[i])

\* [below, above, above, below] on the rule without duration: fired on the
\* second tick, stayed firing over the third, recovered on the fourth
C5_Witness ==
  /\ alertState[1].status = "resolved"
  /\ alertState[1].firedAt = StartTime + 2 * INTERVAL
  /\ alertState[1].resolvedAt = StartTime + 4 * INTERVAL
  /\ fires[1] = 1
  /\ recoveries[1] = 1

\* C6: for a threshold rule with a duration the accumulator grows by the
\* tick step on every tick whose predicate is true and returns to 0 on every
\* tick whose predicate is false; the rule fires only on a tick on which the
\* accumulator has reached the duration, does so on the first such tick when
\* it has never fired, and fires again only outside the cooldown.
C6_DurationAccumulator ==
  [][TickRan =>
       \A i \in DurationRules :
         /\ AccOf(alertState'[i]) = (IF Pred(i) THEN AccOf(alertState[i]) + STEP_SECONDS ELSE 0)
         /\ Dispatched(i, "fire") <= 1
         /\ Dispatched(i, "fire") = 1 =>
              /\ AccOf(alertState'[i]) >= Rules[i].duration
              /\ lastFireAt[i] = Null \/ now - lastFireAt[i] >= cooldownMs
         /\ (StatusOf(alertState[i]) = "idle" /\ AccOf(alertState'[i]) >= Rules[i].duration)
              => Dispatched(i, "fire") = 1
    ]_vars

\* [above, above, below, above, above, above] with duration 60: fired on the
\* second tick, reset and recovered on the third, reached 60 again on the
\* fifth inside the cooldown, fired again on the sixth with the accumulator
\* at 90 and the cooldown over
C6_Witness ==
  /\ fires[2] = 2
  /\ recoveries[2] = 1
  /\ alertState[2].resolvedAt = StartTime + 3 * INTERVAL
  /\ alertState[2].firedAt = StartTime + 6 * INTERVAL
  /\ alertState[2].accumulator = 90
  /\ alertState[2].status = "firing"

\* the rule is not firing and this tick would fire it but for the cooldown
FireEligible(i) ==
  /\ StatusOf(alertState[i]) # "firing"
  /\ IF UsesAccumulator(Rules[i])
       THEN Pred(i) /\ AccOf(alertState[i]) + STEP_SECONDS >= Rules[i].duration
       ELSE Pred(i)

\* C7: two fire notifications for one rule are never less than the cooldown
\* apart; a fire-eligible tick less than the cooldown after the rule last
\* fired sends nothing for the rule and leaves it not firing.
C7_Cooldown ==
  [][TickRan =>
       \A i \in RuleIds :
         /\ Dispatched(i, "fire") >= 1 =>
              lastFireAt[i] = Null \/ now - lastFireAt[i] >= cooldownMs
         /\ (FireEligible(i) /\ lastFireAt[i] # Null /\ now - lastFireAt[i] < cooldownMs) =>
              /\ Dispatched(i, "fire") = 0 /\ Dispatched(i, "recovery") = 0
              /\ alertState'[i].status # "firing"
    ]_vars

\* the duration rule has accumulated its duration again within the cooldown
\* of its last fire: the tick just run left it resolved
C7_Witness ==
  /\ alertState[2].status = "resolved"
  /\ alertState[2].accumulator >= Rules[2].duration
  /\ lastTickAt = now
  /\ now - alertState[2].firedAt < cooldownMs
  /\ fires[2] = 1

\* C8: a tick that finds a rule firing with its predicate false moves it to
\* resolved in that tick and sends one recovery notification, however
\* recently the rule fired.
C8_RecoveryNeverGated ==
  [][TickRan =>
       \A i \in RuleIds :
         (StatusOf(alertState[i]) = "firing" /\ ~Pred(i)) =>
            /\ alertState'[i].status = "resolved"
            /\ alertState'[i].resolvedAt = now
            /\ Dispatched(i, "recovery") = 1
    ]_vars

\* the service rule recovered one tick after it fired, inside its cooldown
C8_Witness ==
  /\ alertState[3].status = "resolved"
  /\ alertState[3].resolvedAt - alertState[3].firedAt = INTERVAL
  /\ alertState[3].resolvedAt - alertState[3].firedAt < cooldownMs
  /\ recoveries[3] = 1

\* C9: in every tick, for every rule, a notification is dispatched exactly
\* when the rule's status changes in the tick, and never more than one; a
\* step that is not a tick dispatches nothing and changes no status.
C9_NotifyIffTransition ==
  [][\A i \in RuleIds :
       IF TickRan
         THEN Dispatched(i, "fire") + Dispatched(i, "recovery") =
                (IF StatusOf(alertState'[i]) # StatusOf(alertState[i]) THEN 1 ELSE 0)
         ELSE /\ StatusOf(alertState'[i]) = StatusOf(alertState[i])
              /\ (lastTickAt' # lastTickAt => sent' = <<>>)
              /\ (lastTickAt' = lastTickAt => sent' = sent)
    ]_vars

\* one tick dispatched a fire for the plain cpu rule and nothing for the
\* duration rule, which it suppressed, nor for the service rule
C9_Witness ==
  /\ sent = <<[rule |-> 1, kind |-> "fire"]>>
  /\ alertState[2].status = "resolved"
  /\ alertState[2].accumulator >= Rules[2].duration
  /\ alertState[3].status = "firing"
  /\ lastTickAt = now

----------------------------------------------------------------------------
(* Claims about the history collector, checked under HistorySpec *)

LastCallFailed == done # NoDone /\ ~(done.appended /\ done.pruned)

\* C30: a failure of the append or of the prune ends the one call it happens
\* in and nothing else: whenever the sampling period has passed since the
\* timer last ran, the timer starts the next call, whether or not the call
\* before it failed, and that call attempts its append.
C30_CollectorSurvivesFailure ==
  (now - lastCollectAt >= HISTORY_INTERVAL /\ Len(runs) < MaxRuns) =>
     /\ ENABLED StartCollect
     /\ LastCallFailed => ENABLED (StartCollect /\ runs'[Len(runs')].pc = "metrics")

\* the first call failed before it appended; one period later the next call
\* has appended its sample and goes on to prune
C30_Witness ==
  /\ done = [appended |-> FALSE, pruned |-> FALSE, dropped |-> 0, at |-> StartTime]
  /\ now = StartTime + HISTORY_INTERVAL
  /\ Len(runs) = 1
  /\ runs[1].pc = "read"
  /\ Len(historyFile) >= 1
  /\ historyFile[Len(historyFile)] = Sample(now)

\* C36: no step removes from history.jsonl a sample that is within the
\* 30 days of retention: pruning drops only samples older than that and
\* lines that do not parse, however the collectHistorySample calls
\* interleave.
C36_NoSampleLost ==
  [][\A j \in 1..Len(historyFile) :
       (historyFile[j].ok /\ historyFile[j].ts >= now - HISTORY_MAX_AGE) =>
          \E i \in 1..Len(historyFile') : historyFile'[i] = historyFile[j]
    ]_vars

----------------------------------------------------------------------------
(* Claims about GET /api/history, checked under QuerySpec *)

\* the bucket width, in seconds, for a window of H hours
WidthFor(H) == IF H <= 24 THEN 300 ELSE IF H <= 168 THEN 3600 ELSE 14400

\* the last call went through to the file and was answered from it
AnsweredFromFile == histResponse.path = "read"

\* the lines of the file that are samples inside the window of the last call
WindowSamples ==
  { j \in 1..Len(historyFile) :
      /\ historyFile[j].ok
      /\ historyFile[j].ts >= histResponse.at - histResponse.hours * 3600 }

\* the start of the bucket a timestamp falls in
BucketStart(ts, w) == ts - (ts % w)

NonEmptyBuckets ==
  { BucketStart(historyFile[j].ts, WidthFor(histResponse.hours)) : j \in WindowSamples }

\* the value a sample carries for the metric asked for; a sample without the
\* field counts as 0
ValueAt(j) ==
  IF histResponse.metric \in DOMAIN historyFile[j].fields
    THEN historyFile[j].fields[histResponse.metric] ELSE 0

RECURSIVE SumOver(_)
SumOver(J) ==
  IF J = {} THEN 0
  ELSE LET j == CHOOSE x \in J : TRUE IN ValueAt(j) + SumOver(J \ {j})

\* C11: a history query for a valid metric and a window of H hours, asked at
\* time t, is answered with one point per bucket that holds a sample with
\* timestamp >= t - H hours and with no other point; the points' timestamps
\* are strictly ascending, and each is a bucket start plus half the width.
C11_OnePointPerBucket ==
  AnsweredFromFile =>
    LET body == histResponse.body
        w == WidthFor(histResponse.hours)
    IN  /\ histResponse.status = 200
        /\ Len(body) = Cardinality(NonEmptyBuckets)
        /\ { body[j].ts : j \in 1..Len(body) } = { b + w \div 2 : b \in NonEmptyBuckets }
        /\ \A j \in 1..Len(body), k \in 1..Len(body) : j < k => body[j].ts < body[k].ts

\* a 24-hour query on a file whose lines are out of order and which holds a
\* sample exactly at the cutoff: two points, the older one first
C11_Witness ==
  /\ AnsweredFromFile
  /\ histResponse.hours = 24
  /\ histResponse.at = StartTime
  /\ Len(historyFile) = 3
  /\ historyFile[1].ok /\ historyFile[1].ts = StartTime - 30
  /\ historyFile[2].ok /\ historyFile[2].ts = StartTime - 24 * 3600
  /\ ~historyFile[3].ok
  /\ Len(histResponse.body) = 2
  /\ histResponse.body[1].ts = StartTime - 24 * 3600 + 150
  /\ histResponse.body[2].ts = StartTime - 150

\* C12: the width is 5 minutes for H <= 24, one hour for 24 < H <= 168 and
\* four hours otherwise, and the value of each point, in tenths, is the mean
\* of the in-window samples of its bucket rounded to the nearest tenth.
C12_WidthAndMean ==
  AnsweredFromFile =>
    LET body == histResponse.body
        w == WidthFor(histResponse.hours)
    IN  \A p \in 1..Len(body) :
          LET start == body[p].ts - w \div 2
              J == { j \in WindowSamples : BucketStart(historyFile[j].ts, w) = start }
              n == Cardinality(J)
              d == 10 * SumOver(J) - n * body[p].value
          IN  /\ start % w = 0
              /\ n > 0
              /\ 2 * d <= n /\ -2 * d <= n

\* a query over 169 hours: four-hour buckets, and the three samples of the
\* newest bucket, 10, 10 and 15, answered as 11.7
C12_Witness ==
  /\ AnsweredFromFile
  /\ histResponse.hours = 169
  /\ histResponse.metric = "cpu"
  /\ Len(historyFile) = 3
  /\ \A j \in 1..3 : historyFile[j].ok /\ historyFile[j].ts > StartTime - 300
  /\ histResponse.body = <<[ts |-> StartTime - 7200, value |-> 117]>>

\* the metric names the endpoint accepts
KnownMetrics == {"cpu", "ram", "disk", "netUp", "netDown"}

\* C13: no call whose metric is missing or unknown ever waits for the
\* history file or is answered from it: it is answered 400 by the
\* validation, and no call is served under another metric than it asked for.
C13_UnknownMetricRejected ==
  /\ \A j \in 1..Len(histQueries) :
       /\ histQueries[j].asked \in KnownMetrics
       /\ histQueries[j].metric = histQueries[j].asked
  /\ (histResponse # NoResponse /\ histResponse.metric \notin KnownMetrics) =>
       /\ histResponse.status = 400
       /\ histResponse.path = "validation"
       /\ histResponse.body = <<>>

\* metric=ts, a field every sample has but not a metric, was rejected while
\* another call was waiting for the file
C13_Witness ==
  /\ histResponse.metric = "ts"
  /\ histResponse.status = 400
  /\ Len(histQueries) = 1

\* the file holds no sample
NoSamples == \A j \in 1..Len(historyFile) : ~historyFile[j].ok

\* C14: a call that got past validation on a store that is missing or holds
\* no sample, and whose read did not fail for another reason than the file
\* being missing, is answered 200 with an empty array.
C14_EmptyStoreEmptyResult ==
  (histResponse.path \in {"read", "ENOENT"} /\ NoSamples) =>
    /\ histResponse.status = 200
    /\ histResponse.body = <<>>

\* readFile failed with ENOENT and the call was answered 200 []
C14_Witness ==
  /\ histResponse.path = "ENOENT"
  /\ historyFile = <<>>
  /\ histResponse.status = 200
  /\ histResponse.body = <<>>
  /\ histResponse.metric = "cpu"

----------------------------------------------------------------------------
(* Claims about GET /api/metrics, checked under MetricsSpec *)

\* C15: no GET /api/metrics call ever waits for a collector it has started,
\* and every answer was built without waiting for one.
C15_NoSourceAwaitedInRequest ==
  /\ \A j \in 1..Len(metricsCalls) : metricsCalls[j].awaiting = {}
  /\ metricsResponse.waitedFor = {}

----------------------------------------------------------------------------
(* Claims about the alert history, checked under AgedAlertSpec *)

EntryId(e) == <<e.ruleIndex, e.firedAt>>

\* at most 20 entries, newest first
HistoryInOrder(h) ==
  /\ Len(h) <= 20
  /\ \A j \in 1..(Len(h) - 1) : h[j].firedAt >= h[j + 1].firedAt

\* h2 is h with p new entries in front, cut after the 20th place: the
\* entries of h that are not in h2 are its oldest, and there are as many of
\* them as the new entries push past the 20th place
PushedOnto(h, h2, p) ==
  /\ Len(h2) = (IF Len(h) + p > 20 THEN 20 ELSE Len(h) + p)
  /\ \A j \in 1..Len(h2) :
       IF j > p THEN EntryId(h2[j]) = EntryId(h[j - p])
       ELSE \A k \in 1..Len(h) : EntryId(h2[j]) # EntryId(h[k])

\* C16: the alert history never holds more than 20 entries and is ordered
\* newest first by firedAt; in every step the history is the one before with
\* the entries pushed in the step in front, and an entry of before is missing
\* only if it was among the oldest and the pushed entries moved it past the
\* 20th place.
C16_HistoryBounded ==
  /\ HistoryInOrder(alertHistory)
  /\ [][/\ HistoryInOrder(alertHistory')
        /\ \E p \in 0..Len(Rules) : PushedOnto(alertHistory, alertHistory', p)
       ]_vars

\* 20 entries, the two newest pushed by one tick after the start, and the
\* two oldest alerts of the past no longer among them
C16_Witness ==
  /\ Len(alertHistory) = 20
  /\ alertHistory[1].firedAt > StartTime
  /\ alertHistory[2].firedAt = alertHistory[1].firedAt
  /\ alertHistory[1].active
  /\ alertHistory[20].firedAt = PastFiredAt(18)

----------------------------------------------------------------------------
(* Claims about evaluateRule, checked under EvalSpec *)

\* the list of the snapshot a binary rule looks at, as name and liveness
LivenessList(rule, snapshot) ==
  CASE rule.metric = "service_down" ->
         [j \in 1..Len(snapshot.services) |->
            [name |-> snapshot.services[j].name, alive |-> snapshot.services[j].active]]
    [] rule.metric = "container_down" ->
         [j \in 1..Len(snapshot.docker) |->
            [name |-> snapshot.docker[j].name, alive |-> snapshot.docker[j].running]]
    [] rule.metric = "bot_offline" ->
         [j \in 1..Len(snapshot.bots) |->
            [name |-> snapshot.bots[j].name, alive |-> snapshot.bots[j].online]]

\* C17: a service_down, container_down or bot_offline rule is triggered only
\* if its list in the snapshot holds an entity with the rule's name whose
\* liveness flag is false; when no entity of the list has the rule's name the
\* rule is not triggered.
C17_BinaryRuleNeedsNamedEntityDown ==
  (evalOutput.done /\ evalInput.rule.metric \in {"service_down", "container_down", "bot_offline"}) =>
    LET list == LivenessList(evalInput.rule, evalInput.snapshot)
        name == evalInput.rule.name
    IN  /\ evalOutput.triggered =>
             \E j \in 1..Len(list) : list[j].name = name /\ ~list[j].alive
        /\ (\A j \in 1..Len(list) : list[j].name # name) => ~evalOutput.triggered

\* a bot_offline rule for nginx on a snapshot whose only bot is redis, and it
\* is offline: not triggered
C17_Witness ==
  /\ evalOutput = [done |-> TRUE, triggered |-> FALSE]
  /\ evalInput.rule.metric = "bot_offline"
  /\ evalInput.rule.name = "nginx"
  /\ evalInput.snapshot # NoSnapshot
  /\ evalInput.snapshot.bots = <<Bot("redis", FALSE)>>

\* the percentage of the snapshot a numeric rule looks at
PercentOf(rule, snapshot) ==
  CASE rule.metric = "cpu" -> snapshot.cpu
    [] rule.metric = "ram" -> snapshot.ram
    [] rule.metric = "disk" -> snapshot.disk

----------------------------------------------------------------------------
(* Claims about notification delivery, checked under NotifySpec *)

\* C18: a step in which the sends of a tick resolve, whether to true or to
\* false, changes no rule's status, firedAt or resolvedAt, no history entry,
\* and starts no send; and a tick sends for a rule only when the rule's
\* status changes in that tick, so a notification that was not delivered is
\* not sent again.
C18_DeliveryNeverAffectsState ==
  [][/\ (outcomes = <<>> /\ outcomes' # <<>>) =>
          /\ alertState' = alertState
          /\ alertHistory' = alertHistory
          /\ sent' = sent
     /\ TickRan =>
          \A i \in RuleIds :
            Dispatched(i, "fire") + Dispatched(i, "recovery") <=
              (IF StatusOf(alertState'[i]) # StatusOf(alertState[i]) THEN 1 ELSE 0)
    ]_vars

\* the fire notification of the plain cpu rule was not delivered: the rule is
\* firing since the tick and its history entry is open
C18_Witness ==
  /\ sent = <<[rule |-> 1, kind |-> "fire"]>>
  /\ outcomes = <<FALSE>>
  /\ alertState[1].status = "firing"
  /\ alertState[1].firedAt = lastTickAt
  /\ Len(alertHistory) >= 1
  /\ alertHistory[1] = [ruleIndex |-> 1, firedAt |-> lastTickAt, active |-> TRUE,
                        resolvedAt |-> Null]

----------------------------------------------------------------------------
(* Claims about the middleware chain, checked under GateSpec *)

\* a step that answers a request
Answered == served' = served + 1

\* the paths of the Pro features F05 (alerts), F06 (restart actions), F07
\* (gateway controls) and F08 (live log tail)
ProFeaturePaths ==
  { <<"api", "alerts", "status">>, <<"api", "alerts", "test">>,
    <<"api", "action", "restart-service">>, <<"api", "action", "restart-docker">>,
    <<"api", "openclaw", "models">>, <<"api", "openclaw", "gateway">>,
    <<"api", "openclaw", "model">>, <<"api", "openclaw", "clear-sessions">>,
    <<"api", "logs", "service", ":name">>, <<"api", "logs", "docker", ":name">> }

\* a valid, unexpired Pro license is active
ProLicenseActive ==
  /\ license.present
  /\ license.twoParts
  /\ license.signed
  /\ license.tier = "pro"
  /\ license.expiresAt >= now

\* C19: a request that gets as far as a Pro endpoint of F05-F08 (past the
\* auth check and the setup redirect) is answered 402 pro_required, without
\* the handler running, whenever no valid unexpired Pro license is active.
C19_ProEndpointsGated ==
  [][(/\ Answered
      /\ httpRequest'.path \in ProFeaturePaths
      /\ httpResponse'.by \notin {"auth", "setup"}
      /\ ~ProLicenseActive)
      => /\ httpResponse'.status = 402
         /\ httpResponse'.error = "pro_required"
         /\ httpResponse'.by # "handler"]_vars

\* the paths the auth middleware is documented to skip
DocumentedSkips(path) ==
  \/ path \in { <<"setup">>, <<"api", "setup">>, <<"api", "health">> }
  \/ (Len(path) >= 2 /\ path[1] = "api" /\ path[2] = "detect")

\* the Authorization header carries the configured user and password
ValidCredentials(header) ==
  /\ header.user = auth.username
  /\ header.pass = auth.password

\* C20: with auth enabled, a request without valid Basic credentials is
\* answered 401 unless its path is /setup, /api/setup, /api/health or under
\* /api/detect.
C20_UnauthenticatedGets401 ==
  [][(/\ Answered
      /\ auth.enabled
      /\ ~ValidCredentials(httpRequest'.header)
      /\ ~DocumentedSkips(httpRequest'.path))
      => httpResponse'.status = 401]_vars

----------------------------------------------------------------------------
(* Claims about the status cycle of a rule, checked under AlertSpec *)

\* C22 (as claimed): the status of a rule changes only from idle to firing,
\* from firing to resolved and from resolved back to idle.
C22_CycleThroughIdle ==
  [][\A i \in RuleIds :
       LET a == StatusOf(alertState[i])
           b == StatusOf(alertState'[i])
       IN  a # b => <<a, b>> \in { <<"idle", "firing">>, <<"firing", "resolved">>,
                                   <<"resolved", "idle">> }
    ]_vars

\* the rule last fired less than the cooldown ago
Cooling(i) ==
  /\ alertState[i].firedAt # Null
  /\ now - alertState[i].firedAt < cooldownMs

\* C22 (amended): firing is entered only from idle or resolved, resolved only
\* from firing, and idle is never entered again: a resolved rule stays
\* resolved until it fires. A rule that is idle or resolved fires on a tick
\* under one and the same condition: the tick would fire it and its own
\* firedAt is unset or at least the cooldown old.
C22_StatusCycle ==
  [][\A i \in RuleIds :
       LET a == StatusOf(alertState[i])
           b == StatusOf(alertState'[i])
       IN  /\ (a # b /\ b = "firing") => a \in {"idle", "resolved"}
           /\ (a # b /\ b = "resolved") => a = "firing"
           /\ a # b => b # "idle"
           /\ (TickRan /\ a \in {"idle", "resolved"}) =>
                 (b = "firing" <=> (FireEligible(i) /\ ~Cooling(i)))
    ]_vars

\* the service rule fired, recovered, and fired again from resolved once its
\* cooldown was over
C22_Witness ==
  /\ alertState[3].status = "firing"
  /\ fires[3] = 2
  /\ recoveries[3] = 1
  /\ alertState[3].resolvedAt # Null
  /\ alertState[3].firedAt > alertState[3].resolvedAt

\* the tick would have rule i firing after it: its predicate holds and, for
\* a rule with a duration, has held long enough
ShouldFire(i) ==
  IF UsesAccumulator(Rules[i])
    THEN Pred(i) /\ AccOf(alertState[i]) + STEP_SECONDS >= Rules[i].duration
    ELSE Pred(i)

\* C24: a tick handles every rule once, in the configured order, and what it
\* does to rule i is settled by rule i's own state and the snapshot, whatever
\* happens to the other rules in the tick: a rule that is not firing fires
\* exactly when it should and its own firedAt is unset or a cooldown old, a
\* firing rule resolves exactly when it should no longer fire, the
\* accumulator of a duration rule is stepped once, and the notifications
\* leave in rule order, at most one per rule.
C24_RulesIndependent ==
  [][TickRan =>
       /\ \A i \in RuleIds :
            LET a == StatusOf(alertState[i])
                b == StatusOf(alertState'[i])
                firedAt == IF alertState[i] = NoState THEN Null ELSE alertState[i].firedAt
            IN  /\ a # "firing" =>
                     /\ b = "firing" <=> (ShouldFire(i) /\ ~Cooling(i))
                     /\ b # "firing" => b = a
                /\ a = "firing" => b = (IF ShouldFire(i) THEN "firing" ELSE "resolved")
                /\ alertState'[i].firedAt = (IF a # "firing" /\ b = "firing" THEN now ELSE firedAt)
                /\ UsesAccumulator(Rules[i]) =>
                     AccOf(alertState'[i]) =
                       (IF Pred(i) THEN AccOf(alertState[i]) + STEP_SECONDS ELSE 0)
                /\ Dispatched(i, "fire") + Dispatched(i, "recovery") = (IF a # b THEN 1 ELSE 0)
       /\ \A j, k \in 1..Len(sent') : j < k => sent'[j].rule < sent'[k].rule
    ]_vars

\* one tick left the plain cpu rule firing without a word, suppressed the
\* duration rule inside its cooldown, and fired the service rule after both
C24_Witness ==
  /\ lastTickAt = now
  /\ alertState[1].status = "firing"
  /\ alertState[1].firedAt < now
  /\ alertState[2].status = "resolved"
  /\ alertState[2].accumulator >= Rules[2].duration
  /\ alertState[3].status = "firing"
  /\ alertState[3].firedAt = now
  /\ sent = <<[rule |-> 3, kind |-> "fire"]>>

\* C25: timer callbacks do not overlap, and a tick evaluates all its rules on
\* one snapshot, the one published last when it began; a step that publishes
\* a snapshot is no part of a tick.
C25_OneSnapshotPerTick ==
  [][/\ lastTickAt' # lastTickAt =>
          /\ lastTickAt' = now
          /\ now - lastTickAt = INTERVAL
          /\ lastMetricSnapshot' = lastMetricSnapshot
     /\ TickRan =>
          \A i \in RuleIds :
            LET a == StatusOf(alertState[i])
                b == StatusOf(alertState'[i])
            IN  IF UsesAccumulator(Rules[i])
                  THEN AccOf(alertState'[i]) > 0 <=> Pred(i)
                  ELSE /\ (a = "firing") => (b = "resolved" <=> ~Pred(i))
                       /\ (a # "firing" /\ ~Cooling(i)) => (b = "firing" <=> Pred(i))
     /\ lastMetricSnapshot' # lastMetricSnapshot =>
          /\ lastTickAt' = lastTickAt
          /\ alertState' = alertState
          /\ alertHistory' = alertHistory
          /\ sent' = sent
    ]_vars

\* the snapshot published between two ticks had the cpu back below 90 and
\* nginx down: the second tick resolved the cpu rule and fired the service
\* rule, both on that snapshot
C25_Witness ==
  /\ lastTickAt = now
  /\ lastMetricSnapshot.cpu = 89
  /\ alertState[1].status = "resolved"
  /\ alertState[1].resolvedAt = now
  /\ alertState[1].firedAt = now - INTERVAL
  /\ alertState[3].status = "firing"
  /\ alertState[3].firedAt = now

----------------------------------------------------------------------------
(* Claims about the entries of the alert history, checked under AgedAlertSpec *)

\* the entries of a history that rule i pushed when it fired at f
EntriesOf(h, i, f) == { j \in 1..Len(h) : h[j].ruleIndex = i /\ h[j].firedAt = f }

\* every entry of h is inactive exactly when its resolvedAt is set, and an
\* active one belongs to a rule that st has firing since the entry's firedAt
EntriesSound(h, st) ==
  \A j \in 1..Len(h) :
    /\ ~h[j].active <=> h[j].resolvedAt # Null
    /\ h[j].active =>
         /\ st[h[j].ruleIndex].status = "firing"
         /\ st[h[j].ruleIndex].firedAt = h[j].firedAt

\* C26: a fire pushes one entry, active and with resolvedAt unset; the
\* resolve of the rule closes that entry, the one pushed by the rule's last
\* fire, if the buffer still holds it, and stamps it with the time of the
\* resolve; an entry is inactive exactly when its resolvedAt is set, and an
\* active entry belongs to a rule that is firing since the entry's firedAt.
C26_EntryLifecycle ==
  /\ EntriesSound(alertHistory, alertState)
  /\ [][/\ EntriesSound(alertHistory', alertState')
        /\ TickRan =>
          \A i \in RuleIds :
            /\ Dispatched(i, "fire") = 1 =>
                 /\ Cardinality(EntriesOf(alertHistory', i, now)) = 1
                 /\ EntriesOf(alertHistory, i, now) = {}
                 /\ \A j \in EntriesOf(alertHistory', i, now) :
                      alertHistory'[j].active /\ alertHistory'[j].resolvedAt = Null
            /\ Dispatched(i, "recovery") = 1 =>
                 \A j \in EntriesOf(alertHistory', i, alertState[i].firedAt) :
                   ~alertHistory'[j].active /\ alertHistory'[j].resolvedAt = now
            /\ \A j \in 1..Len(alertHistory') :
                 (alertHistory'[j].ruleIndex = i /\ alertHistory'[j].resolvedAt = now) =>
                    /\ Dispatched(i, "recovery") = 1
                    /\ alertHistory'[j].firedAt = alertState[i].firedAt
     ]_vars

\* the plain cpu rule fired on a full buffer and recovered one tick later:
\* its entry, pushed down by the fire of the service rule in the tick of the
\* recovery, is closed at the time of the recovery
C26_Witness ==
  /\ Len(alertHistory) = HistoryCap
  /\ alertHistory[1].ruleIndex = 3
  /\ alertHistory[1].active
  /\ alertHistory[1].firedAt = now
  /\ alertHistory[2].ruleIndex = 1
  /\ ~alertHistory[2].active
  /\ alertHistory[2].firedAt = now - INTERVAL
  /\ alertHistory[2].resolvedAt = now

----------------------------------------------------------------------------
(* Claims about the restart actions, checked under RestartSpec *)

IsRestart(c) == c.verb \in {"systemctl --user restart", "docker restart"}

\* the commands the request just answered has run
RanNow == SubSeq(commands', Len(commands) + 1, Len(commands'))

\* the containers docker ps -a listed for the request just answered
DiscoveredNow == { RanNow[i].out[j] :
                     <<i, j>> \in { p \in (1..Len(RanNow)) \X (1..2) :
                                      /\ RanNow[p[1]].verb = "docker ps -a"
                                      /\ p[2] <= Len(RanNow[p[1]].out) } }

\* the name of the request just answered passes the whitelist of its action
\* and belongs to the configured, or discovered, set
NameAllowed ==
  LET r == restartResponse'
  IN /\ r.name.type = "string"
     /\ r.name.chars # <<>>
     /\ IF r.route = "restart-service"
          THEN /\ \A i \in 1..Len(r.name.chars) : r.name.chars[i] \in SERVICE_NAME_CHARS
               /\ r.name.chars \in {systemdServices[i] : i \in 1..Len(systemdServices)}
          ELSE /\ \A i \in 1..Len(r.name.chars) : r.name.chars[i] \in CONTAINER_NAME_CHARS
               /\ IF dockerContainers.mode = "auto"
                    THEN r.name.chars \in DiscoveredNow
                    ELSE r.name.chars \in {dockerContainers.names[i] :
                                              i \in 1..Len(dockerContainers.names)}

\* C21: a restart action runs a restart command only for the name of its
\* request, and only when that name passes the character whitelist and
\* belongs to the configured (or, in auto mode, discovered) services or
\* containers; for every other name the answer is ok:false and no restart
\* command is run.
C21_RestartOnlyKnownNames ==
  [][restarts' = restarts + 1 =>
       /\ \A i \in 1..Len(RanNow) :
            IsRestart(RanNow[i]) => NameAllowed /\ RanNow[i].name = restartResponse'.name.chars
       /\ ~NameAllowed =>
            /\ restartResponse'.ok = FALSE
            /\ \A i \in 1..Len(RanNow) : ~IsRestart(RanNow[i])
       /\ \A i \in 1..Len(commands) : commands'[i] = commands[i]
    ]_vars

\* a restart of the configured service web was run, and then the injected
\* name was refused without a command
C21_Witness ==
  /\ restarts = 2
  /\ Len(commands) = 2
  /\ commands[1] = Ran("systemctl --user restart", Web, <<>>)
  /\ restartResponse.name = Str(Injected)
  /\ restartResponse.route = "restart-service"
  /\ restartResponse.ok = FALSE
  /\ restartResponse.code = 400

----------------------------------------------------------------------------
(* Claims about a snapshot that is never replaced, checked under StaleSpec *)

\* the accumulator of rule i before the tick, 0 for a rule the worker has
\* not seen yet
AccumulatorOf(i) == IF alertState[i] = NoState THEN 0 ELSE alertState[i].accumulator

\* C33: every tick evaluates the snapshot that is published, new or not: on
\* each tick on which it satisfies the predicate of a duration rule the
\* accumulator of the rule grows by 30 s, and a single snapshot above the
\* threshold that is never replaced makes the rule fire in the end.
C33_StaleSnapshotCounts ==
  /\ [][AlertTick =>
          \A i \in RuleIds :
            (UsesAccumulator(Rules[i]) /\ evaluateRule(Rules[i], lastMetricSnapshot)) =>
               alertState'[i].accumulator = AccumulatorOf(i) + 30
       ]_vars
  /\ \A i \in RuleIds :
       (UsesAccumulator(Rules[i]) /\ evaluateRule(Rules[i], lastMetricSnapshot)) =>
          <>(alertState[i].status = "firing" /\ alertState[i].firedAt > StartTime)

\* the rule with a duration of 60 s has fired on the second tick after the
\* only snapshot was published
C33_Witness ==
  /\ lastMetricSnapshot.cpu = 90
  /\ alertState[2].status = "firing"
  /\ alertState[2].firedAt = StartTime + 2 * INTERVAL
  /\ alertState[2].accumulator = 60
  /\ fires[2] = 1

----------------------------------------------------------------------------
(* Claims about the active list of GET /api/alerts/status *)

\* alertHistory.filter(e => e.active), as the positions of the entries
ActiveEntries(i) ==
  { j \in 1..Len(alertHistory) : alertHistory[j].ruleIndex = i /\ alertHistory[j].active }

\* C35: in every reachable state the active entries of the history are those
\* of the rules that are firing: a firing rule has exactly one, a rule in
\* any other status has none.
C35_ActiveIsFiring ==
  \A i \in RuleIds :
    Cardinality(ActiveEntries(i)) = IF alertState[i].status = "firing" THEN 1 ELSE 0

----------------------------------------------------------------------------
(* Claims about bot_offline rules at startup, checked under WarmupSpec *)

\* a probe, or the load of data/bot-cache.json, has produced a value for
\* the key
EverProbed(k) == lastGood[k].kind = "result"

\* C37: a bot_offline rule fires only when a probe has produced a liveness
\* value for its bot: the placeholder online: false that the cache hands out
\* for a key never probed with success does not make it fire.
C37_NoAlertOnPlaceholder ==
  [][\A i \in RuleIds :
       (Rules[i].metric = "bot_offline" /\ fires'[i] = fires[i] + 1) => EverProbed(Rules[i].name)
    ]_vars

----------------------------------------------------------------------------
(* Claims about the monthly budget alert, checked under BudgetSpec *)

\* C32: with a monthly budget configured, a calendar month in which a
\* collection has found the month-to-date cost at or above the budget has had
\* exactly one budget alert, sent by the first such collection, and a month
\* in which no collection has found that has had none.
C32_OneAlertPerMonth ==
  BudgetSet => monthAlerts = (IF monthReached THEN 1 ELSE 0)

----------------------------------------------------------------------------
(* Claims about the cron cache, checked under CronSpec *)

\* C38: a GET /api/cron made after a cron mutation has completed never
\* answers with a job list older than that mutation.
C38_FreshAfterMutation == cronResponse.jobs >= cronResponse.floor

====
